---- MODULE Spec2Model ----
(***************************************************************************)
(* The WebSocket client of the EnSync Node SDK (class EnSyncEngine):       *)
(* request/response matching over #messageCallbacks, the connection        *)
(* lifecycle (connect, #authenticate, #handleClose, reconnect timer) and   *)
(* the subscription registry with its replay after a reconnect.            *)
(*                                                                         *)
(* One action is one turn of the Node event loop: a transport callback, a  *)
(* timer callback or an application call, together with the promise        *)
(* continuations (microtasks) it releases.                                 *)
(***************************************************************************)
EXTENDS Integers, Sequences, FiniteSets, TLC

\* ------------------------------------------------------------------ bounds
MaxLive == 2                \* requests that are unsettled or still referenced; map entries
MaxHandlers == 1            \* wrapped handlers per topic
MaxJobs == 1                \* asynchronous handler invocations in progress
MaxFanout == 2              \* wrapped handlers per topic where one frame goes to several handlers
maxReconnectAttempts == 2   \* options.maxReconnectAttempts
MaxClose == 2               \* close() calls whose promise is not resolved
MaxNoAuth == maxReconnectAttempts + 1 \* cap of the attemptsNoAuth counter
MaxRetry == 2               \* timers of #connectWithRetry that are pending
MaxOwed == 3                \* commands written on one transport and not answered yet
MaxFrames == 2              \* frames of the gRPC stream whose handlers have not all completed
MaxItems == 2               \* key=value items of a block
MaxRenew == 2               \* client ids issued to the HTTP client by CONN and RENEW
MaxKeys == 3                \* Ed25519 key pairs of the recipients

\* #deferEvent: delayMs !== 0 && (delayMs < 1000 || delayMs > 24 * 60 * 60 * 1000)
MinDelay == 1000
MaxDelay == 24 * 60 * 60 * 1000
Delays == {0, MinDelay - 1, MinDelay, MaxDelay, MaxDelay + 1}
\* the recipients argument of publish: not an array, [], [key]
Recipients == {"notarray", "empty", "one"}
Commands == {"PAUSE", "CONTINUE", "DISCARD", "REPLAY"}

Topics == {"t1", "t2"}
\* the handlers given to the gRPC client: functions that return a plain value
GrpcHandlers == {"h2", "h3"}
\* h1 is an async function, h2 and h3 return a plain value, h4 throws
HandlerFns == {"h1", "h2", "h3", "h4"}
Responses == {"PASS", "REPLAY", "FAIL"}  \* +PASS:  +REPLAY:  -FAIL:
NoTopic == "-"

Slots == 1..MaxLive

VARIABLES
    now,              \* Date.now(), in ms, counted over the instants that live entries refer to
    ws,               \* this.#ws: "none" or its readyState; "failed" = 'error' emitted, 'close' due
    connCaller,       \* who called connect() for this.#ws: "none", "user", "reconnect"
    state,            \* this.#state
    messageCallbacks, \* this.#messageCallbacks in insertion order: <<[id, req]>>
    reqs,             \* promises returned by #sendMessage that are unsettled or
                      \* still referenced (by the map or by an armed timer), oldest first
    subscriptions,    \* this.#subscriptions in insertion order: <<[name, handlers]>>
    handles,          \* subscription objects the application holds: topic -> "none" | options.autoAck
    jobs,             \* async handlers awaited by the IIFE of #handleMessage
    pingInFlight,     \* a ws.ping() that has not been answered
    settled,          \* promises settled in the latest turn: {[slot, outcome]}
    emitted,          \* events delivered to listeners and log lines of the latest turn
    wire,             \* frames written with ws.send in the latest turn
    invoked,          \* handlers invoked in the latest turn: <<[topic, handler]>>
    thrown,           \* errors the operations raised to their callers in the latest turn: {[op, kind]}
    subSent,          \* topics for which SUB was written on the current transport
    appHandlers,      \* handlers the application attached with on() to a topic it has not unsubscribed
    closedWith,       \* this.#subscriptions as it was when the latest 'close' arrived
    attemptsNoOpen,   \* connect() calls made by the reconnect timer since the last 'open'
    attemptsNoAuth,   \* connect() calls made by the reconnect timer since the last CONN +PASS:
    closeWaiters,     \* promises of close() waiting for the 'close' event of this.#ws
    grpc,             \* the gRPC client: its #state, the unary call awaiting its callback,
                      \* the RPCs issued and the errors raised in its latest step, the
                      \* delay_ms of its latest DeferMessage request; #subscriptionStream
                      \* (stream), the keys of #subscriptions (registered) and their
                      \* handler sets, the subscription objects the application holds,
                      \* the message_name of the call in progress, the handlers invoked
                      \* in its latest step; heartbeatTimeout, the Heartbeat call in
                      \* progress and what was logged for the latest one
    crypto,           \* the crypto module as its caller sees it: the envelope produced by
                      \* the latest encryption (as stored or transmitted since) and the
                      \* outcome of the latest decryption
    unsubscribed,     \* topics whose UNSUB was answered +PASS: and for which the
                      \* application has not called subscribe() since
    owed,             \* the engine's side of the WebSocket: whether it answers every
                      \* command exactly once and in order and, if so, the commands
                      \* written on this transport that it has not answered yet:
                      \* <<[slot, live]>>, live while the request is not settled
    converted,           \* #convertKeyValueToObject: the text handed to it, the items the
                      \* text was written from and the object returned
    http              \* the HTTP client (src/index.js): the engine's #config and
                      \* #internalAction, its EnSyncClient and #renewTimeout, the request
                      \* in progress, the timer of #connectWithRetry

vars == <<now, ws, connCaller, state, messageCallbacks, reqs, subscriptions, handles,
          jobs, pingInFlight, settled, emitted, wire, invoked, thrown, subSent, appHandlers,
          closedWith, attemptsNoOpen, attemptsNoAuth, closeWaiters, owed, unsubscribed, grpc, http,
          crypto, converted>>

\* the variables of the WebSocket client
wsVars == <<now, ws, connCaller, state, messageCallbacks, reqs, subscriptions, handles,
            jobs, pingInFlight, settled, emitted, wire, invoked, thrown, subSent, appHandlers,
            closedWith, attemptsNoOpen, attemptsNoAuth, closeWaiters, owed, unsubscribed>>

\* ------------------------------------------------------------------ crypto
\* Values are symbolic. A key pair is its number; nacl.box.keyPair() draws a pair
\* from Ephemeral; the X25519 secret shared by a public and a secret key is the set
\* of the two pairs they belong to; an authenticator verifies only under the key
\* and nonce it was made with and only if no byte of the ciphertext was altered.
KeyPairs == 1..MaxKeys
Ephemeral == {MaxKeys + 1, MaxKeys + 2}
Nonces == {"n1", "n2"}          \* nacl.randomBytes(nonceLength)
MessageKeys == {"mk1", "mk2"}   \* generateMessageKey()
Plaintexts == {"", "a", "b"}    \* message: a UTF-8 string
Encodings == {"bytes", "base64"}
ConfigKeys == {0} \cup KeyPairs    \* 0: the key is not configured

\* a key as the caller passes it: a Uint8Array or its base64 string
PublicKey(k, enc) == [enc |-> enc, type |-> "ed25519pk", pair |-> k]
SecretKey(k, enc) == [enc |-> enc, type |-> "ed25519sk", pair |-> k]

\* naclUtil.encodeBase64 / decodeBase64 / decodeUTF8 / encodeUTF8
encodeBase64(x) == [x EXCEPT !.enc = "base64"]
decodeBase64(x) == [x EXCEPT !.enc = "bytes"]
decodeUTF8(str) == [enc |-> "bytes", data |-> str]
\* a Uint8Array holding v
Bytes(v) == [enc |-> "bytes", data |-> v]
encodeUTF8(b) == b.data

\* typeof key === 'string' ? naclUtil.decodeBase64(key) : key
KeyBytes(key) == IF key.enc = "base64" THEN decodeBase64(key) ELSE key

\* ed2curve.convertPublicKey / convertSecretKey: the X25519 key of the same pair;
\* an argument that is not the key's bytes yields the key of no pair (0)
ed25519PublicKeyToCurve25519(pk) ==
    [type |-> "x25519pk", pair |-> IF pk.enc = "bytes" THEN pk.pair ELSE 0]
ed25519SecretKeyToCurve25519(sk) ==
    [type |-> "x25519sk", pair |-> IF sk.enc = "bytes" THEN sk.pair ELSE 0]

\* nacl.box(msg, nonce, theirPublicKey, mySecretKey) and nacl.secretbox(msg, nonce, key)
box(msg, nonce, pk, sk) ==
    [enc |-> "bytes", key |-> {pk.pair, sk.pair}, nonce |-> nonce, msg |-> msg, altered |-> FALSE]
secretbox(msg, nonce, key) ==
    [enc |-> "bytes", key |-> key, nonce |-> nonce, msg |-> msg, altered |-> FALSE]

\* nacl.box.open / nacl.secretbox.open: the message, or null
Null == [null |-> TRUE]
boxOpen(c, nonce, pk, sk) ==
    IF c.enc = "bytes" /\ ~c.altered /\ pk.enc = "bytes" /\ c.key = {pk.pair, sk.pair}
       /\ c.nonce = nonce
    THEN c.msg ELSE Null
secretboxOpen(c, nonce, key) ==
    IF c.enc = "bytes" /\ ~c.altered /\ c.key = key /\ c.nonce = nonce THEN c.msg ELSE Null

\* what a function returns or throws
Return(v) == [error |-> "none", value |-> v]
ThrowError(msg) == [error |-> msg, value |-> Null]

\* encryptEd25519 that passes a base64 key on without decoding it
encryptEd25519NoDecode(message, recipientEd25519PublicKey, eph, n) ==
    LET ephemeralKeyPair == [publicKey |-> [enc |-> "bytes", type |-> "x25519pk", pair |-> eph],
                             secretKey |-> [enc |-> "bytes", type |-> "x25519sk", pair |-> eph]]
        nonce == Bytes(n)
        recipientCurve25519PublicKey == ed25519PublicKeyToCurve25519(recipientEd25519PublicKey)
        ciphertext == box(decodeUTF8(message), nonce, recipientCurve25519PublicKey,
                          ephemeralKeyPair.secretKey)
    IN  [nonce |-> encodeBase64(nonce), ciphertext |-> encodeBase64(ciphertext),
         ephemeralPublicKey |-> encodeBase64(ephemeralKeyPair.publicKey)]

encryptEd25519(message, recipientEd25519PublicKey, eph, n) ==
    LET publicKeyBytes == KeyBytes(recipientEd25519PublicKey)
        ephemeralKeyPair == [publicKey |-> [enc |-> "bytes", type |-> "x25519pk", pair |-> eph],
                             secretKey |-> [enc |-> "bytes", type |-> "x25519sk", pair |-> eph]]
        nonce == Bytes(n)
        recipientCurve25519PublicKey == ed25519PublicKeyToCurve25519(publicKeyBytes)
        ciphertext == box(decodeUTF8(message), nonce, recipientCurve25519PublicKey,
                          ephemeralKeyPair.secretKey)
    IN  [nonce |-> encodeBase64(nonce), ciphertext |-> encodeBase64(ciphertext),
         ephemeralPublicKey |-> encodeBase64(ephemeralKeyPair.publicKey)]

\* decryptEd25519 without the check of the result of nacl.box.open
decryptEd25519Unchecked(encrypted, recipientEd25519SecretKey) ==
    LET secretKeyBytes == KeyBytes(recipientEd25519SecretKey)
        nonce == decodeBase64(encrypted.nonce)
        ciphertext == decodeBase64(encrypted.ciphertext)
        ephemeralPublicKey == decodeBase64(encrypted.ephemeralPublicKey)
        recipientCurve25519SecretKey == ed25519SecretKeyToCurve25519(secretKeyBytes)
        plaintext == boxOpen(ciphertext, nonce, ephemeralPublicKey,
                             recipientCurve25519SecretKey)
    IN  IF plaintext = Null THEN Return(ciphertext.msg.data)
        ELSE Return(encodeUTF8(plaintext))

decryptEd25519(encrypted, recipientEd25519SecretKey) ==
    LET secretKeyBytes == KeyBytes(recipientEd25519SecretKey)
        nonce == decodeBase64(encrypted.nonce)
        ciphertext == decodeBase64(encrypted.ciphertext)
        ephemeralPublicKey == decodeBase64(encrypted.ephemeralPublicKey)
        recipientCurve25519SecretKey == ed25519SecretKeyToCurve25519(secretKeyBytes)
        plaintext == boxOpen(ciphertext, nonce, ephemeralPublicKey,
                             recipientCurve25519SecretKey)
    IN  IF plaintext = Null THEN ThrowError("Failed to decrypt: authentication failed")
        ELSE Return(encodeUTF8(plaintext))

encryptWithMessageKey(message, messageKey, n) ==
    LET nonce == Bytes(n)
        ciphertext == secretbox(decodeUTF8(message), nonce, messageKey)
    IN  [nonce |-> encodeBase64(nonce), ciphertext |-> encodeBase64(ciphertext)]

decryptWithMessageKey(encrypted, messageKey) ==
    LET nonce == decodeBase64(encrypted.nonce)
        ciphertext == decodeBase64(encrypted.ciphertext)
        plaintext == secretboxOpen(ciphertext, nonce, messageKey)
    IN  IF plaintext = Null THEN ThrowError("Failed to decrypt: authentication failed")
        ELSE Return(encodeUTF8(plaintext))

encryptMessageKey(messageKey, recipientEd25519PublicKey, eph, n) ==
    LET publicKeyBytes == KeyBytes(recipientEd25519PublicKey)
        ephemeralKeyPair == [publicKey |-> [enc |-> "bytes", type |-> "x25519pk", pair |-> eph],
                             secretKey |-> [enc |-> "bytes", type |-> "x25519sk", pair |-> eph]]
        nonce == Bytes(n)
        recipientCurve25519PublicKey == ed25519PublicKeyToCurve25519(publicKeyBytes)
        encryptedKey == box(messageKey, nonce,
                            recipientCurve25519PublicKey, ephemeralKeyPair.secretKey)
    IN  [nonce |-> encodeBase64(nonce), encryptedKey |-> encodeBase64(encryptedKey),
         ephemeralPublicKey |-> encodeBase64(ephemeralKeyPair.publicKey)]

decryptMessageKey(encryptedKey, recipientEd25519SecretKey) ==
    LET secretKeyBytes == KeyBytes(recipientEd25519SecretKey)
        nonce == decodeBase64(encryptedKey.nonce)
        encryptedKeyBytes == decodeBase64(encryptedKey.encryptedKey)
        ephemeralPublicKey == decodeBase64(encryptedKey.ephemeralPublicKey)
        recipientCurve25519SecretKey == ed25519SecretKeyToCurve25519(secretKeyBytes)
        messageKey == boxOpen(encryptedKeyBytes, nonce, ephemeralPublicKey,
                              recipientCurve25519SecretKey)
    IN  IF messageKey = Null
        THEN ThrowError("Failed to decrypt message key: authentication failed")
        ELSE Return(messageKey)

\* recipientId: the base64 string of a public key
RecipientId(publicKey) == IF publicKey.enc = "base64" THEN publicKey ELSE encodeBase64(publicKey)

\* hybridEncrypt that wraps the message key for the first recipient only
hybridEncryptFirstOnly(message, recipientPublicKeys, messageKey, eph, n) ==
    [encryptedPayload |-> encryptWithMessageKey(message, messageKey, n),
     encryptedKeys |-> {[id |-> RecipientId(recipientPublicKeys[i]),
                         key |-> encryptMessageKey(messageKey, recipientPublicKeys[i], eph, n)]
                        : i \in {j \in DOMAIN recipientPublicKeys : j = 1}}]

\* encryptedKeys is the object {recipientId: encrypted key}, kept as its entries
hybridEncrypt(message, recipientPublicKeys, messageKey, eph, n) ==
    [encryptedPayload |-> encryptWithMessageKey(message, messageKey, n),
     encryptedKeys |-> {[id |-> RecipientId(recipientPublicKeys[i]),
                         key |-> encryptMessageKey(messageKey, recipientPublicKeys[i], eph, n)]
                        : i \in DOMAIN recipientPublicKeys}]

\* hybridDecrypt that takes any entry when the recipient has none
hybridDecryptAnyEntry(hybridEncrypted, recipientPublicKey, recipientPrivateKey) ==
    LET recipientId == RecipientId(recipientPublicKey)
        own == {e \in hybridEncrypted.encryptedKeys : e.id = recipientId}
        found == IF own # {} THEN own ELSE hybridEncrypted.encryptedKeys
    IN  IF found = {} THEN ThrowError("No encrypted key found for this recipient")
        ELSE LET messageKey == decryptMessageKey((CHOOSE e \in found : TRUE).key,
                                                 recipientPrivateKey)
             IN  IF messageKey.error # "none" THEN messageKey
                 ELSE decryptWithMessageKey(hybridEncrypted.encryptedPayload, messageKey.value)

hybridDecrypt(hybridEncrypted, recipientPublicKey, recipientPrivateKey) ==
    LET recipientId == RecipientId(recipientPublicKey)
        found == {e \in hybridEncrypted.encryptedKeys : e.id = recipientId}
    IN  IF found = {} THEN ThrowError("No encrypted key found for this recipient")
        ELSE LET messageKey == decryptMessageKey((CHOOSE e \in found : TRUE).key,
                                                 recipientPrivateKey)
             IN  IF messageKey.error # "none" THEN messageKey
                 ELSE decryptWithMessageKey(hybridEncrypted.encryptedPayload, messageKey.value)

\* ------------------------------------------------------------ key=value blocks
\* a text is the sequence of its characters
BlockKeys == {<<"a">>, <<"b">>}
BlockValues == {<<"x">>, <<"x", "=">>, <<"y", "=", "=">>}   \* the last two: base64 padding
Pads == {<<>>, <<" ">>}

RECURSIVE Split(_, _)
\* String.prototype.split(c): the pieces between the occurrences of c
Split(text, c) ==
    IF \A i \in DOMAIN text : text[i] # c THEN <<text>>
    ELSE LET i == CHOOSE j \in DOMAIN text : text[j] = c /\ \A k \in 1..(j - 1) : text[k] # c
         IN  <<SubSeq(text, 1, i - 1)>> \o Split(SubSeq(text, i + 1, Len(text)), c)

RECURSIVE Trim(_)
\* String.prototype.trim
Trim(text) ==
    IF text = <<>> THEN text
    ELSE IF Head(text) = " " THEN Trim(Tail(text))
    ELSE IF text[Len(text)] = " " THEN Trim(SubSeq(text, 1, Len(text) - 1))
    ELSE text

\* convertedRecords[key] = value
Assign(obj, key, value) == {e \in obj : e[1] # key} \cup {<<key, value>>}

RECURSIVE ConvertItems(_, _)
\* items.forEach: [key, value] = item.split("="); an item without "=" has no
\* value to trim
ConvertItems(items, obj) ==
    IF items = <<>> THEN [out |-> obj, error |-> "none"]
    ELSE LET parts == Split(Head(items), "=")
         IN  IF Len(parts) < 2 THEN [out |-> obj, error |-> "TypeError"]
             ELSE ConvertItems(Tail(items), Assign(obj, Trim(parts[1]), Trim(parts[2])))

\* #convertKeyValueToObject(data) with the default braces
convertKeyValueToObject(data) ==
    LET wrapped == data # <<>> /\ Head(data) = "{" /\ data[Len(data)] = "}"
        items == IF wrapped /\ Len(data) > 1
                 THEN Split(SubSeq(data, 2, Len(data) - 1), ",")
                 ELSE Split(data, ",")
    IN  ConvertItems(items, {})

RECURSIVE Join(_, _, _)
\* the block as the engine writes it: key=value items separated by commas, with
\* pad around keys and values
Join(items, pad, sep) ==
    IF items = <<>> THEN <<>>
    ELSE (IF sep THEN <<",">> ELSE <<>>) \o pad \o Head(items)[1] \o pad \o <<"=">>
         \o pad \o Head(items)[2] \o pad \o Join(Tail(items), pad, TRUE)

Block(items, pad, braces) ==
    IF braces THEN <<"{">> \o Join(items, pad, FALSE) \o <<"}">> ELSE Join(items, pad, FALSE)

RECURSIVE Expected(_, _)
\* the map the items stand for: each key with its complete value, a later item
\* of the same key replacing the earlier
Expected(items, obj) ==
    IF items = <<>> THEN obj
    ELSE Expected(Tail(items), Assign(obj, Head(items)[1], Head(items)[2]))

\* a key of the configuration: the base64 secret key of pair k, or none (k = 0)
ConfiguredKey(k) == IF k = 0 THEN Null ELSE SecretKey(k, "base64")

\* appSecretKey || this.#config.appSecretKey || this.#config.clientHash
DecryptionKey(appSecretKey, configAppSecretKey, clientHash) ==
    IF appSecretKey # Null THEN appSecretKey
    ELSE IF configAppSecretKey # Null THEN configAppSecretKey ELSE clientHash

\* JSON.parse of the text of a payload; the empty text is not JSON
JSONparse(text) == IF text = "" THEN ThrowError("SyntaxError") ELSE Return([json |-> text])

\* #decryptPayload of the WebSocket client
decryptPayload(encryptedPayload, appSecretKey, configAppSecretKey, clientHash) ==
    LET decryptionKey == DecryptionKey(appSecretKey, configAppSecretKey, clientHash)
        text == decryptEd25519(encryptedPayload, decryptionKey)
    IN  IF decryptionKey = Null THEN [success |-> FALSE, payload |-> Null]
        ELSE IF text.error # "none" THEN [success |-> FALSE, payload |-> Null]
        ELSE IF JSONparse(text.value).error # "none" THEN [success |-> FALSE, payload |-> Null]
        ELSE [success |-> TRUE, payload |-> JSONparse(text.value).value]

\* #processMessage of the gRPC client: the processed message, or null
processMessage(kind, encryptedPayload, appSecretKey, configAppSecretKey, clientHash) ==
    LET decryptionKey == DecryptionKey(appSecretKey, configAppSecretKey, clientHash)
        failed == [success |-> FALSE, payload |-> Null]
        parsed(text) == IF text.error # "none" \/ JSONparse(text.value).error # "none"
                        THEN failed
                        ELSE [success |-> TRUE, payload |-> JSONparse(text.value).value]
    IN  IF decryptionKey = Null THEN failed
        ELSE IF kind = "hybrid"
        THEN LET opened == {e \in encryptedPayload.encryptedKeys :
                               /\ decryptMessageKey(e.key, decryptionKey).error = "none"
                               /\ parsed(decryptWithMessageKey(
                                       encryptedPayload.encryptedPayload,
                                       decryptMessageKey(e.key, decryptionKey).value)).success}
             IN  IF opened = {} THEN failed
                 ELSE parsed(decryptWithMessageKey(
                          encryptedPayload.encryptedPayload,
                          decryptMessageKey((CHOOSE e \in opened : TRUE).key, decryptionKey).value))
        ELSE parsed(decryptEd25519(encryptedPayload, decryptionKey))

\* the caller's view: the envelope in hand, what it was made from, which part of
\* it was altered since, and the outcome of the latest decryption with the keys `by`
NoEnvelope ==
    [kind |-> "none", op |-> "none", message |-> "", recipients |-> {}, envelope |-> <<>>,
     altered |-> "none", alteredFor |-> 0, by |-> [pub |-> 0, sec |-> 0, enc |-> "bytes"],
     keys |-> <<>>, out |-> Return("")]

RECURSIVE SeqOf(_)
\* the recipients as the array the caller passes, in ascending order
SeqOf(S) == IF S = {} THEN <<>>
            ELSE LET x == CHOOSE y \in S : \A z \in S : y <= z IN <<x>> \o SeqOf(S \ {x})

\* ----------------------------------------------------------------- helpers
Min(a, b) == IF a < b THEN a ELSE b

Range(s) == {s[i] : i \in DOMAIN s}

\* Map.prototype.set: an existing key keeps its position and gets the new value
MapSet(m, id, r) ==
    IF \E i \in DOMAIN m : m[i].id = id
    THEN [i \in DOMAIN m |-> IF m[i].id = id THEN [id |-> id, req |-> r] ELSE m[i]]
    ELSE Append(m, [id |-> id, req |-> r])

\* Map.prototype.delete
MapDelete(m, id) == SelectSeq(m, LAMBDA e : e.id # id)

LiveSlots(rs) == {rs[i].slot : i \in DOMAIN rs}
IdxOf(rs, s) == CHOOSE i \in DOMAIN rs : rs[i].slot = s
FreeSlot(rs) == CHOOSE s \in Slots \ LiveSlots(rs) : \A u \in Slots \ LiveSlots(rs) : s <= u

HasSub(subs, t) == \E i \in DOMAIN subs : subs[i].name = t
HandlersOf(subs, t) ==
    IF HasSub(subs, t) THEN subs[CHOOSE i \in DOMAIN subs : subs[i].name = t].handlers ELSE <<>>
\* this.#subscriptions.set(t, new Set()) when the topic is missing
SubEnsure(subs, t) == IF HasSub(subs, t) THEN subs ELSE Append(subs, [name |-> t, handlers |-> <<>>])
SubDelete(subs, t) == SelectSeq(subs, LAMBDA e : e.name # t)

\* the mutable part of the client that the chained calls of one turn thread through
Machine ==
    [state |-> state, mc |-> messageCallbacks, reqs |-> reqs, subs |-> subscriptions,
     handles |-> handles, jobs |-> jobs, settled |-> {}, emitted |-> {}, wire |-> <<>>,
     invoked |-> <<>>, thrown |-> {}, subSent |-> subSent, open |-> (ws = "open"), now |-> now,
     conts |-> <<>>, ok |-> TRUE, owed |-> owed, unsubscribed |-> unsubscribed]


\* ------------------------------------------------------ requests (promises)
\* the promise, callbacks and closure of one #sendMessage call
NewReq(verb, topic, origin, aa, caller, todo) ==
    [slot |-> 0, id |-> 0, verb |-> verb, topic |-> topic, origin |-> origin,
     autoAck |-> aa, caller |-> caller, todo |-> todo,
     status |-> "pending", timer |-> TRUE, calls |-> 0]

\* the name of the EnSyncError a promise of #sendMessage is rejected with
ErrorOf(outcome) ==
    CASE outcome = "FAIL" -> "EnSyncError"
      [] outcome = "timeout" -> "EnSyncTimeoutError"
      [] OTHER -> "EnSyncConnectionError"

\* the operation that awaits request r, as its caller knows it
OpOf(r) == IF r.origin = "auth" THEN "connect" ELSE r.verb

\* the name of the error that the operation awaiting request r raises to its caller
\* when r settles with outcome; "none" when it returns or the error is caught and logged
Raised(r, outcome) ==
    CASE r.origin = "auth" ->
            IF outcome = "PASS" THEN "none"
            ELSE IF outcome = "REPLAY" THEN "EnSyncAuthError" ELSE ErrorOf(outcome)
      [] r.origin = "app" /\ r.verb = "PUB" ->
            IF outcome \in {"PASS", "REPLAY"} THEN "none" ELSE "EnSyncPublishError"
      [] r.origin = "app" /\ r.verb \in {"SUB", "UNSUB"} ->
            IF outcome = "PASS" THEN "none"
            ELSE IF outcome = "REPLAY" THEN "EnSyncSubscriptionError" ELSE ErrorOf(outcome)
      [] r.origin = "app" /\ r.verb \in {"PAUSE", "CONTINUE", "DEFER", "DISCARD", "REPLAY"} ->
            IF outcome \in {"PASS", "REPLAY"} THEN "none" ELSE ErrorOf(outcome)
      [] OTHER -> "none"

Throw(m, r, outcome) ==
    IF Raised(r, outcome) = "none" THEN m
    ELSE [m EXCEPT !.thrown = @ \cup {[op |-> OpOf(r), kind |-> Raised(r, outcome)]}]

\* #sendMessage: messageId = Date.now(); the entry is stored under it before the
\* socket is looked at; a socket that is not OPEN rejects at once and leaves the entry
sendMessage(m, rq) ==
    IF m.open
    THEN IF LiveSlots(m.reqs) = Slots \/ Len(m.owed.q) >= MaxOwed
         THEN [m EXCEPT !.ok = FALSE]
         ELSE LET s == FreeSlot(m.reqs) IN
              [m EXCEPT !.reqs = Append(@, [rq EXCEPT !.slot = s, !.id = m.now]),
                        !.mc = MapSet(@, m.now, s),
                        !.wire = Append(@, <<rq.verb, rq.topic>>),
                        !.subSent = IF rq.verb = "SUB" THEN @ \cup {rq.topic} ELSE @,
                        !.owed.q = IF m.owed.on
                                   THEN Append(@, [slot |-> s, live |-> TRUE]) ELSE @]
    ELSE [Throw(m, rq, "notconnected") EXCEPT
                   !.mc = MapSet(@, m.now, 0),
                   !.settled = @ \cup {[slot |-> 0, outcome |-> "notconnected"]},
                   !.ok = @ /\ Len(MapSet(m.mc, m.now, 0)) <= MaxLive]

\* clearTimeout(callback.timeout); slot 0 stands for the callbacks of a promise
\* that was rejected in #sendMessage (its timer is cleared there)
clearTimeout(m, s) ==
    IF s = 0 THEN m ELSE [m EXCEPT !.reqs[IdxOf(m.reqs, s)].timer = FALSE]

\* the engine's queue once the request of slot s is settled: the engine still owes
\* the answer, the client no longer waits for it
Settle(q, s) ==
    [j \in DOMAIN q |-> IF q[j].slot = s THEN [q[j] EXCEPT !.live = FALSE] ELSE q[j]]

\* the engine's queue once it has written the answer to its oldest command
Answered(q) == IF q = <<>> THEN q ELSE Tail(q)

\* callback.resolve(message) / callback.reject(error): the first call settles the
\* promise and queues its continuation, a later call is a no-op of the promise
Call(m, s, outcome) ==
    IF s = 0 THEN m
    ELSE LET i == IdxOf(m.reqs, s)
             r == m.reqs[i]
         IN  IF r.status = "pending"
             THEN [m EXCEPT !.reqs[i].status = outcome, !.reqs[i].calls = 1,
                            !.settled = @ \cup {[slot |-> s, outcome |-> outcome]},
                            !.conts = Append(@, <<r, outcome>>),
                            !.owed.q = Settle(@, s)]
             ELSE [m EXCEPT !.reqs[i].calls = Min(2, @ + 1)]

\* a settled promise that neither the map nor an armed timer refers to is garbage
Collect(m) ==
    [m EXCEPT !.reqs = SelectSeq(@, LAMBDA r :
        \/ r.status = "pending"
        \/ r.timer
        \/ r.calls > 1
        \/ \E i \in DOMAIN m.mc : m.mc[i].req = r.slot)]

\* ------------------------------------------------ subscriptions and replay
\* #on: wrappedHandler = {handler, appSecretKey, autoAck} added to the topic's Set
on(subs, t, h) ==
    LET s1 == SubEnsure(subs, t) IN
    [i \in DOMAIN s1 |-> IF s1[i].name = t
                         THEN [s1[i] EXCEPT !.handlers = Append(@, h)]
                         ELSE s1[i]]

\* the function returned by #on: the first wrapped handler of h is deleted from the
\* topic's Set, and the entry is deleted when the Set is empty
off(subs, t, h) ==
    IF ~HasSub(subs, t) THEN subs
    ELSE LET hs == HandlersOf(subs, t)
             ks == {k \in DOMAIN hs : hs[k].handler = h}
             k0 == IF ks = {} THEN 0 ELSE CHOOSE k \in ks : \A j \in ks : k <= j
             left == [j \in 1..(Len(hs) - (IF k0 = 0 THEN 0 ELSE 1)) |->
                         IF k0 = 0 \/ j < k0 THEN hs[j] ELSE hs[j + 1]]
         IN  IF left = <<>> THEN SubDelete(subs, t)
             ELSE [i \in DOMAIN subs |-> IF subs[i].name = t
                                          THEN [subs[i] EXCEPT !.handlers = left]
                                          ELSE subs[i]]

RECURSIVE Restore(_, _, _)
\* handlers.forEach(handlerObj => this.#on(eventName, ...)) of #authenticate
Restore(subs, t, hs) ==
    IF hs = <<>> THEN subs ELSE Restore(on(subs, t, Head(hs)), t, Tail(hs))

RECURSIVE ResubLoop(_, _, _)
\* the for-loop of #authenticate over currentSubscriptions, from the topic
\* Head(todo) on, up to its next await; a subscribe() that throws is caught
ResubLoop(m, todo, caller) ==
    IF todo = <<>>
    THEN [m EXCEPT !.emitted = @ \cup {IF caller = "reconnect" THEN "reconnect" ELSE "connected"}]
    ELSE IF ~m.state.isAuthenticated
    THEN ResubLoop(m, Tail(todo), caller)
    ELSE IF ~m.open
    THEN ResubLoop(sendMessage(m, NewReq("SUB", Head(todo).name, "resub", TRUE, caller, todo)),
                   Tail(todo), caller)
    ELSE sendMessage(m, NewReq("SUB", Head(todo).name, "resub", TRUE, caller, todo))

\* #authenticate after CONN was answered +PASS:
AuthPass(m, caller) ==
    ResubLoop([m EXCEPT !.state.isAuthenticated = TRUE, !.subs = <<>>], m.subs, caller)

\* subscribe() after its SUB settled, as called by the application
SubscribeDone(m, r, outcome) ==
    IF outcome = "PASS"
    THEN [m EXCEPT !.subs = SubEnsure(@, r.topic),
                   !.handles[r.topic] = IF r.autoAck THEN "ack" ELSE "noack"]
    ELSE m

\* subscribe() and the restore of the handlers, as called by #authenticate
ResubDone(m, r, outcome) ==
    LET m1 == IF outcome = "PASS"
              THEN [m EXCEPT !.subs = Restore(SubEnsure(@, r.topic), r.topic,
                                              Head(r.todo).handlers)]
              ELSE m
    IN  ResubLoop(m1, Tail(r.todo), r.caller)

\* #unsubscribe after its UNSUB settled
UnsubscribeDone(m, r, outcome) ==
    IF outcome = "PASS"
    THEN [m EXCEPT !.subs = SubDelete(@, r.topic), !.unsubscribed = @ \cup {r.topic}]
    ELSE m

\* the code that awaits the promise of request r, run when r settles
Continue(m, r, outcome) ==
    CASE r.origin = "auth" ->
            IF outcome = "PASS" THEN AuthPass(m, r.caller)
            ELSE [Throw(m, r, outcome) EXCEPT !.emitted = @ \cup {"connectRejected"}]
      [] r.origin = "resub" -> ResubDone(m, r, outcome)
      [] r.origin = "app" /\ r.verb = "SUB" -> SubscribeDone(Throw(m, r, outcome), r, outcome)
      [] r.origin = "app" /\ r.verb = "UNSUB" -> UnsubscribeDone(Throw(m, r, outcome), r, outcome)
      [] OTHER -> Throw(m, r, outcome)

RECURSIVE RunConts(_)
\* the microtasks released by one turn, in the order the promises were settled
RunConts(m) ==
    IF m.conts = <<>> THEN Collect(m)
    ELSE CHOOSE r \in {RunConts(n) : n \in {Continue([Collect(m) EXCEPT !.conts = Tail(@)],
                                                       Head(m.conts)[1], Head(m.conts)[2])}} : TRUE

\* message ids are Map keys and are only compared for equality, and Date.now()
\* never decreases: the ids are kept as their ranks among the instants in use
UsedIds(m, t) == {m.mc[i].id : i \in DOMAIN m.mc} \cup {m.reqs[i].id : i \in DOMAIN m.reqs} \cup {t}
Rank(U, x) == Cardinality({u \in U : u < x})
RebaseMap(m, t) == [i \in DOMAIN m.mc |-> [m.mc[i] EXCEPT !.id = Rank(UsedIds(m, t), @)]]
RebaseReqs(m, t) == [i \in DOMAIN m.reqs |-> [m.reqs[i] EXCEPT !.id = Rank(UsedIds(m, t), @)]]

\* the state after the turn, at clock reading t
CommitAt(m, t) ==
    /\ m.ok
    /\ now' = Rank(UsedIds(m, t), t)
    /\ state' = m.state
    /\ messageCallbacks' = RebaseMap(m, t)
    /\ reqs' = RebaseReqs(m, t)
    /\ subscriptions' = m.subs
    /\ handles' = m.handles
    /\ jobs' = m.jobs
    /\ settled' = m.settled
    /\ emitted' = m.emitted
    /\ wire' = m.wire
    /\ invoked' = m.invoked
    /\ thrown' = m.thrown
    /\ subSent' = m.subSent
    /\ owed' = m.owed
    /\ unsubscribed' = m.unsubscribed

Commit(m) == CommitAt(m, now)

\* --------------------------------------------------------- #handleMessage
\* ResolveOldest without the clearTimeout
ResolveOldestKeepsTimer(m, kind) ==
    IF m.mc = <<>> THEN m
    ELSE LET e == Head(m.mc) IN
         Call([m EXCEPT !.mc = MapDelete(@, e.id)], e.req, kind)

\* the response branch: the oldest entry of the map is taken, its timer cleared,
\* the entry deleted and its promise settled with the frame
ResolveOldest(m, kind) ==
    IF m.mc = <<>> THEN m
    ELSE LET e == Head(m.mc) IN
         Call([clearTimeout(m, e.req) EXCEPT !.mc = MapDelete(@, e.id)], e.req, kind)

\* HandlePing without the return: the frame falls through to the response branch
HandlePingFallsThrough(m) ==
    LET m1 == [m EXCEPT !.wire = Append(@, <<"PONG", NoTopic>>)] IN
    IF m1.mc = <<>> THEN m1
    ELSE Call([clearTimeout(m1, Head(m1.mc).req) EXCEPT !.mc = Tail(@)], Head(m1.mc).req, "PASS")

\* the PING branch: answered with PONG, nothing else
HandlePing(m) == [m EXCEPT !.wire = Append(@, <<"PONG", NoTopic>>)]

\* the error of the isAuthenticated check every command starts with
NotAuthenticatedError(verb) == [op |-> verb, kind |-> "EnSyncAuthError"]

\* ack without the isAuthenticated check
ackUnchecked(m, t) ==
    sendMessage(m, NewReq("ACK", t, "autoack", FALSE, "none", <<>>))

\* #ack as called for an auto-acknowledge; "Not authenticated" is thrown to the
\* IIFE, which catches and logs it
ack(m, t) ==
    IF ~m.state.isAuthenticated
    THEN [m EXCEPT !.thrown = @ \cup {NotAuthenticatedError("ACK")}]
    ELSE sendMessage(m, NewReq("ACK", t, "autoack", FALSE, "none", <<>>))

IsAsync(h) == h = "h1"
Throws(h) == h = "h4"

\* RunHandler with the auto-acknowledge sent before the handler's promise is awaited
RunHandlerAcksEarly(m, t, h, dec) ==
    IF ~dec THEN [m EXCEPT !.emitted = @ \cup {"dropped"}]
    ELSE LET mi == [m EXCEPT !.invoked = Append(@, [topic |-> t, handler |-> h.handler])] IN
         IF Throws(h.handler) THEN [mi EXCEPT !.emitted = @ \cup {"handlerError"}]
         ELSE IF IsAsync(h.handler)
         THEN IF Len(mi.jobs) >= MaxJobs
              THEN [mi EXCEPT !.ok = FALSE]
              ELSE LET mj == [mi EXCEPT !.jobs = Append(@, [topic |-> t, handler |-> h.handler,
                                                            autoAck |-> FALSE])]
                   IN  IF h.autoAck THEN ack(mj, t) ELSE mj
         ELSE IF h.autoAck THEN ack(mi, t) ELSE mi

\* RunHandler that calls the handler although the payload was not decrypted
RunHandlerIgnoresDecrypt(m, t, h, dec) ==
    LET mi == [m EXCEPT !.invoked = Append(@, [topic |-> t, handler |-> h.handler]),
                        !.emitted = IF dec THEN @ ELSE @ \cup {"dropped"}] IN
    IF Throws(h.handler) THEN [mi EXCEPT !.emitted = @ \cup {"handlerError"}]
    ELSE IF IsAsync(h.handler)
    THEN IF Len(mi.jobs) >= MaxJobs
         THEN [mi EXCEPT !.ok = FALSE]
         ELSE [mi EXCEPT !.jobs = Append(@, [topic |-> t, handler |-> h.handler,
                                             autoAck |-> h.autoAck])]
    ELSE IF h.autoAck THEN ack(mi, t) ELSE mi

\* the async IIFE of one wrapped handler, run up to its first await; dec = the
\* payload decrypts with the handler's key. A handler that throws is caught and
\* logged; a handler that returns a promise is awaited before the auto-acknowledge
RunHandler(m, t, h, dec) ==
    IF ~dec THEN [m EXCEPT !.emitted = @ \cup {"dropped"}]
    ELSE LET mi == [m EXCEPT !.invoked = Append(@, [topic |-> t, handler |-> h.handler])] IN
         IF Throws(h.handler) THEN [mi EXCEPT !.emitted = @ \cup {"handlerError"}]
         ELSE IF IsAsync(h.handler)
         THEN IF Len(mi.jobs) >= MaxJobs
              THEN [mi EXCEPT !.ok = FALSE]
              ELSE [mi EXCEPT !.jobs = Append(@, [topic |-> t, handler |-> h.handler,
                                                  autoAck |-> h.autoAck])]
         ELSE IF h.autoAck THEN ack(mi, t) ELSE mi

RECURSIVE Dispatch(_, _, _, _)
\* the +RECORD: branch: the for-loop starts one IIFE per wrapped handler of the
\* topic and does not await it
Dispatch(m, t, hs, dec) ==
    IF hs = <<>> THEN m
    ELSE Dispatch(RunHandler(m, t, Head(hs), dec), t, Tail(hs), dec)

\* the IIFE after its await: the auto-acknowledge, whose error is caught and logged
AfterAwait(m, job) == IF job.autoAck THEN ack(m, job.topic) ELSE m

\* ----------------------------------------------------------- #handleClose
clearTimers(st) == [st EXCEPT !.pingTimeout = FALSE, !.reconnectTimeout = FALSE]

RECURSIVE RejectAll(_, _)
\* this.#messageCallbacks.forEach(clearTimeout; reject('Connection closed'))
RejectAll(m, es) ==
    IF es = <<>> THEN m
    ELSE RejectAll(Call(clearTimeout(m, Head(es).req), Head(es).req, "closed"), Tail(es))

\* ShouldSchedule with <= for <
ShouldScheduleOffByOne(st) == st.shouldReconnect /\ st.reconnectAttempts <= maxReconnectAttempts

\* the condition under which #handleClose schedules a reconnect
ShouldSchedule(st) == st.shouldReconnect /\ st.reconnectAttempts < maxReconnectAttempts

handleClose(m) ==
    LET m1 == [m EXCEPT !.state = clearTimers([@ EXCEPT !.isConnected = FALSE,
                                                        !.isAuthenticated = FALSE])]
        m2 == [RejectAll(m1, m1.mc) EXCEPT !.mc = <<>>, !.emitted = @ \cup {"close"},
                                           !.owed.q = <<>>]
    IN  IF ShouldSchedule(m2.state)
        THEN [m2 EXCEPT !.state.reconnectAttempts = @ + 1, !.state.reconnectTimeout = TRUE]
        ELSE IF m2.state.reconnectAttempts >= maxReconnectAttempts
        THEN [m2 EXCEPT !.emitted = @ \cup {"givingUp"}]
        ELSE m2

\* -------------------------------------------------------------------- Init
Constructed ==
    /\ now = 0
    /\ ws = "none"
    /\ connCaller = "none"
    /\ state = [isConnected |-> FALSE, isAuthenticated |-> FALSE, reconnectAttempts |-> 0,
                pingTimeout |-> FALSE, reconnectTimeout |-> FALSE, shouldReconnect |-> TRUE]
    /\ messageCallbacks = <<>>
    /\ reqs = <<>>
    /\ subscriptions = <<>>
    /\ handles = [t \in Topics |-> "none"]
    /\ jobs = <<>>
    /\ pingInFlight = FALSE
    /\ settled = {}
    /\ emitted = {}
    /\ wire = <<>>
    /\ invoked = <<>>
    /\ thrown = {}
    /\ subSent = {}
    /\ appHandlers = [t \in Topics |-> <<>>]
    /\ closedWith = <<>>
    /\ attemptsNoOpen = 0
    /\ attemptsNoAuth = 0
    /\ closeWaiters = 0
    /\ unsubscribed = {}
    /\ grpc = [isAuthenticated |-> FALSE, handle |-> FALSE, call |-> "none",
               rpc |-> <<>>, delay_ms |-> 0, thrown |-> {},
               stream |-> FALSE, registered |-> {}, handlers |-> [t \in Topics |-> {}],
               objects |-> {}, topic |-> NoTopic, invoked |-> {},
               heartbeatTimeout |-> FALSE, heartbeat |-> FALSE, lastHeartbeat |-> "none",
               order |-> [t \in Topics |-> <<>>], autoAck |-> [t \in Topics |-> FALSE],
               loops |-> <<>>, resumed |-> 0, lastAck |-> "none"]
    /\ http = [engine |-> "none", client |-> FALSE, endSession |-> FALSE, clientId |-> 0,
               renewTimeout |-> FALSE, renewId |-> 0, request |-> "none",
               stopEngine |-> FALSE, session |-> "none", retryTimeout |-> 0, raised |-> {}]
    /\ crypto = NoEnvelope
    /\ converted = [op |-> "none", items |-> <<>>, data |-> <<>>, out |-> {}, error |-> "none"]

\* an engine of which nothing is assumed: it may write any response at any time
Init == Constructed /\ owed = [on |-> FALSE, q |-> <<>>]

\* an engine that answers every command exactly once and in the order received
InitOrderly == Constructed /\ owed = [on |-> TRUE, q |-> <<>>]

\* between the 'error' and the 'close' event of a socket nothing else runs
Running == ws # "failed"

\* ------------------------------------------------------ clock and transport
\* a millisecond passes; it shows only if an entry was stored under the current one
Tick ==
    /\ Running
    /\ \/ \E i \in DOMAIN messageCallbacks : messageCallbacks[i].id = now
       \/ \E i \in DOMAIN reqs : reqs[i].id = now
    /\ CommitAt(Machine, now + 1)
    /\ UNCHANGED <<ws, connCaller, pingInFlight, appHandlers, closedWith, attemptsNoOpen, attemptsNoAuth, closeWaiters, grpc, http, crypto, converted>>

\* createClient -> connect(): new WebSocket, startPingInterval
CreateClient ==
    /\ ws = "none"
    /\ ws' = "connecting"
    /\ connCaller' = "user"
    /\ Commit([Machine EXCEPT !.state = [clearTimers(@) EXCEPT !.pingTimeout = TRUE],
                              !.subSent = {}])
    /\ UNCHANGED <<pingInFlight, appHandlers, closedWith, attemptsNoOpen, attemptsNoAuth, closeWaiters, grpc, http, crypto, converted>>

\* ws 'open': isConnected, reconnectAttempts = 0, #authenticate sends CONN
Open ==
    /\ ws = "connecting"
    /\ ws' = "open"
    /\ Commit(sendMessage([Machine EXCEPT !.open = TRUE,
                                          !.state.isConnected = TRUE,
                                          !.state.reconnectAttempts = 0],
                          NewReq("CONN", NoTopic, "auth", FALSE, connCaller, <<>>)))
    /\ attemptsNoOpen' = 0
    /\ UNCHANGED <<connCaller, pingInFlight, appHandlers, closedWith, attemptsNoAuth, closeWaiters, grpc, http, crypto, converted>>

\* ws 'message' with +PASS:, +REPLAY: or -FAIL:
RecvResponse(kind) ==
    /\ ws \in {"open", "closing"}
    /\ LET m0 == [Machine EXCEPT !.owed.q = Answered(@)]
           m == RunConts([ResolveOldest(m0, kind) EXCEPT !.emitted = @ \cup {"message"}])
       IN  /\ Commit(m)
           /\ attemptsNoAuth' = IF m.state.isAuthenticated /\ ~state.isAuthenticated
                                THEN 0 ELSE attemptsNoAuth
    /\ UNCHANGED <<ws, connCaller, pingInFlight, appHandlers, closedWith, attemptsNoOpen, closeWaiters, grpc, http, crypto, converted>>

\* ws 'message' with PING
RecvPing ==
    /\ ws \in {"open", "closing"}
    /\ Commit(HandlePing(Machine))
    /\ UNCHANGED <<ws, connCaller, pingInFlight, appHandlers, closedWith, attemptsNoOpen, attemptsNoAuth, closeWaiters, grpc, http, crypto, converted>>

\* ws 'message' with +RECORD: for topic t
RecvRecord(t, dec) ==
    /\ ws \in {"open", "closing"}
    /\ Commit(Dispatch(Machine, t, HandlersOf(subscriptions, t), dec))
    /\ UNCHANGED <<ws, connCaller, pingInFlight, appHandlers, closedWith, attemptsNoOpen, attemptsNoAuth, closeWaiters, grpc, http, crypto, converted>>

\* the promise of an async handler is fulfilled; the IIFE goes on to the auto-acknowledge
HandlerDone(i) ==
    /\ Running
    /\ i \in DOMAIN jobs
    /\ \E m \in {[Machine EXCEPT !.jobs = SubSeq(@, 1, i - 1) \o SubSeq(@, i + 1, Len(@))]} :
          Commit(AfterAwait(m, jobs[i]))
    /\ UNCHANGED <<ws, connCaller, pingInFlight, appHandlers, closedWith, attemptsNoOpen, attemptsNoAuth, closeWaiters, grpc, http, crypto, converted>>

\* the promise of an async handler is rejected: result.catch logs the error and
\* the IIFE goes on as after a fulfilled promise
HandlerFail(i) ==
    /\ Running
    /\ i \in DOMAIN jobs
    /\ \E m \in {[Machine EXCEPT !.jobs = SubSeq(@, 1, i - 1) \o SubSeq(@, i + 1, Len(@)),
                                 !.emitted = {"asyncHandlerError"}]} :
          Commit(AfterAwait(m, jobs[i]))
    /\ UNCHANGED <<ws, connCaller, pingInFlight, appHandlers, closedWith, attemptsNoOpen, attemptsNoAuth, closeWaiters, grpc, http, crypto, converted>>

\* the 30 s timer of the request in slot s fires
Timeout(s) ==
    /\ Running
    /\ \E i \in DOMAIN reqs : reqs[i].slot = s /\ reqs[i].timer
    /\ \E m0 \in {[Machine EXCEPT !.reqs[IdxOf(reqs, s)].timer = FALSE,
                                    !.mc = MapDelete(@, reqs[IdxOf(reqs, s)].id)]} :
          \E m1 \in {Call(m0, s, "timeout")} :
             \E m \in {RunConts(m1)} : Commit(m)
    /\ UNCHANGED <<ws, connCaller, pingInFlight, appHandlers, closedWith, attemptsNoOpen, attemptsNoAuth, closeWaiters, grpc, http, crypto, converted>>

\* ws 'error' -> #handleError; the socket emits 'close' right after
TransportError ==
    /\ ws \in {"connecting", "open", "closing"}
    /\ ws' = "failed"
    /\ Commit([Machine EXCEPT !.emitted = {"error"}])
    /\ UNCHANGED <<connCaller, pingInFlight, appHandlers, closedWith, attemptsNoOpen, attemptsNoAuth, closeWaiters, grpc, http, crypto, converted>>

\* ws 'close' -> #handleClose
TransportClose ==
    /\ ws \in {"open", "closing", "failed"}
    /\ ws' = "closed"
    /\ pingInFlight' = FALSE
    /\ closedWith' = subscriptions
    /\ closeWaiters' = 0
    /\ Commit(RunConts(handleClose([Machine EXCEPT !.open = FALSE])))
    /\ UNCHANGED <<connCaller, appHandlers, attemptsNoOpen, attemptsNoAuth, grpc, http, crypto, converted>>

\* the reconnect timer of #handleClose fires: connect()
ReconnectTimer ==
    /\ Running
    /\ state.reconnectTimeout
    /\ attemptsNoAuth < MaxNoAuth
    /\ ws' = "connecting"
    /\ connCaller' = "reconnect"
    /\ Commit([Machine EXCEPT !.state = [clearTimers(@) EXCEPT !.pingTimeout = TRUE],
                              !.subSent = {}])
    /\ attemptsNoOpen' = attemptsNoOpen + 1
    /\ attemptsNoAuth' = attemptsNoAuth + 1
    /\ UNCHANGED <<pingInFlight, appHandlers, closedWith, closeWaiters, grpc, http, crypto, converted>>

\* the ping interval fires on an open socket: ws.ping()
PingTimer ==
    /\ state.pingTimeout
    /\ ws = "open"
    /\ ~pingInFlight
    /\ pingInFlight' = TRUE
    /\ Commit(Machine)
    /\ UNCHANGED <<ws, connCaller, appHandlers, closedWith, attemptsNoOpen, attemptsNoAuth, closeWaiters, grpc, http, crypto, converted>>

\* ws 'pong' -> #handlePong
Pong ==
    /\ ws = "open"
    /\ pingInFlight
    /\ pingInFlight' = FALSE
    /\ Commit([Machine EXCEPT !.state.reconnectAttempts = 0])
    /\ UNCHANGED <<ws, connCaller, appHandlers, closedWith, attemptsNoOpen, attemptsNoAuth, closeWaiters, grpc, http, crypto, converted>>

\* ------------------------------------------------------ application calls
\* publish(eventName, recipients, payload): the checks of the argument, then one
\* PUB per recipient
PublishWith(recipients) ==
    /\ Running
    /\ state.isAuthenticated
    /\ IF recipients \in {"notarray", "empty"}
       THEN Commit([Machine EXCEPT !.thrown = {[op |-> "PUB", kind |-> "EnSyncAuthError"]}])
       ELSE Commit(sendMessage(Machine, NewReq("PUB", NoTopic, "app", FALSE, "none", <<>>)))
    /\ UNCHANGED <<ws, connCaller, pingInFlight, appHandlers, closedWith, attemptsNoOpen, attemptsNoAuth, closeWaiters, grpc, http, crypto, converted>>

Subscribe(t, aa) ==
    /\ Running
    /\ state.isAuthenticated
    /\ Commit(sendMessage([Machine EXCEPT !.unsubscribed = @ \ {t}],
                           NewReq("SUB", t, "app", aa, "none", <<>>)))
    /\ UNCHANGED <<ws, connCaller, pingInFlight, appHandlers, closedWith, attemptsNoOpen, attemptsNoAuth, closeWaiters, grpc, http, crypto, converted>>

Publish == PublishWith("one")

\* publish(), subscribe(t) or subscription.defer() called while
\* this.#state.isAuthenticated is false: the call throws before #sendMessage
NotAuthenticated(verb, t) ==
    /\ Running
    /\ ~state.isAuthenticated
    /\ Commit([Machine EXCEPT !.thrown = {NotAuthenticatedError(verb)},
                              !.unsubscribed = IF verb = "SUB" THEN @ \ {t} ELSE @])
    /\ UNCHANGED <<ws, connCaller, pingInFlight, appHandlers, closedWith, attemptsNoOpen, attemptsNoAuth, closeWaiters, grpc, http, crypto, converted>>

\* subscription.pause / resume / discard / replay of a subscription object
Command(verb, t) ==
    /\ Running
    /\ handles[t] # "none"
    /\ state.isAuthenticated
    /\ Commit(sendMessage(Machine, NewReq(verb, t, "app", FALSE, "none", <<>>)))
    /\ UNCHANGED <<ws, connCaller, pingInFlight, appHandlers, closedWith, attemptsNoOpen, attemptsNoAuth, closeWaiters, grpc, http, crypto, converted>>

\* DeferTakesAnyDelay: #deferEvent without the range check
DeferTakesAnyDelay(d) ==
    /\ Running
    /\ \E t \in Topics : handles[t] # "none"
    /\ state.isAuthenticated
    /\ Commit(sendMessage(Machine, NewReq("DEFER", NoTopic, "app", FALSE, "none", <<>>)))
    /\ UNCHANGED <<ws, connCaller, pingInFlight, appHandlers, closedWith, attemptsNoOpen, attemptsNoAuth, closeWaiters, grpc, http, crypto, converted>>

\* subscription.defer(eventIdem, delayMs) -> #deferEvent
Defer(d) ==
    /\ Running
    /\ \E t \in Topics : handles[t] # "none"
    /\ state.isAuthenticated
    /\ IF d # 0 /\ (d < MinDelay \/ d > MaxDelay)
       THEN Commit([Machine EXCEPT !.thrown = {[op |-> "DEFER", kind |-> "EnSyncValidationError"]}])
       ELSE Commit(sendMessage(Machine, NewReq("DEFER", NoTopic, "app", FALSE, "none", <<>>)))
    /\ UNCHANGED <<ws, connCaller, pingInFlight, appHandlers, closedWith, attemptsNoOpen, attemptsNoAuth, closeWaiters, grpc, http, crypto, converted>>

\* ---------------------------------------------------------- the gRPC client
\* createClient -> #authenticate: the Connect RPC
GrpcCreateClient ==
    /\ grpc.call = "none"
    /\ ~grpc.isAuthenticated
    /\ grpc' = [grpc EXCEPT !.call = "Connect", !.rpc = <<"Connect">>, !.thrown = {},
                            !.invoked = {}]
    /\ UNCHANGED <<wsVars, http, crypto, converted>>

\* the error a unary call raises when its callback reports an error or no success
GrpcRaised(call) ==
    CASE call = "Connect" -> {[op |-> "connect", kind |-> "EnSyncAuthError"]}
      [] call = "DeferMessage" -> {[op |-> "DEFER", kind |-> "EnSyncDeferError"]}
      [] call = "Unsubscribe" -> {[op |-> "UNSUB", kind |-> "EnSyncSubscriptionError"]}
      [] OTHER -> {[op |-> "PUB", kind |-> "EnSyncPublishError"]}

\* GrpcReply where a successful Unsubscribe also cancels the shared stream
GrpcReplyCancelsStream(success) ==
    /\ grpc.call # "none"
    /\ grpc' = [grpc EXCEPT
           !.call = "none",
           !.topic = NoTopic,
           !.rpc = <<>>,
           !.invoked = {},
           !.isAuthenticated = IF grpc.call = "Connect" THEN success ELSE @,
           !.heartbeatTimeout = IF grpc.call = "Connect" /\ success THEN TRUE ELSE @,
           !.stream = IF grpc.call = "Unsubscribe" /\ success THEN FALSE ELSE @,
           !.registered = IF grpc.call = "Unsubscribe" /\ success THEN @ \ {grpc.topic} ELSE @,
           !.handlers = IF grpc.call = "Unsubscribe" /\ success
                        THEN [t \in Topics |-> IF t = grpc.topic THEN {} ELSE @[t]]
                        ELSE @,
           !.order = IF grpc.call = "Unsubscribe" /\ success
                     THEN [t \in Topics |-> IF t = grpc.topic THEN <<>> ELSE @[t]]
                     ELSE @,
           !.thrown = IF success THEN {} ELSE GrpcRaised(grpc.call)]
    /\ UNCHANGED <<wsVars, http, crypto, converted>>

\* the callback of the unary call in progress
GrpcReply(success) ==
    /\ grpc.call # "none"
    /\ grpc' = [grpc EXCEPT
           !.call = "none",
           !.topic = NoTopic,
           !.rpc = <<>>,
           !.invoked = {},
           !.isAuthenticated = IF grpc.call = "Connect" THEN success ELSE @,
           !.heartbeatTimeout = IF grpc.call = "Connect" /\ success THEN TRUE ELSE @,
           !.registered = IF grpc.call = "Unsubscribe" /\ success THEN @ \ {grpc.topic} ELSE @,
           !.handlers = IF grpc.call = "Unsubscribe" /\ success
                        THEN [t \in Topics |-> IF t = grpc.topic THEN {} ELSE @[t]]
                        ELSE @,
           !.order = IF grpc.call = "Unsubscribe" /\ success
                     THEN [t \in Topics |-> IF t = grpc.topic THEN <<>> ELSE @[t]]
                     ELSE @,
           !.thrown = IF success THEN {} ELSE GrpcRaised(grpc.call)]
    /\ UNCHANGED <<wsVars, http, crypto, converted>>

\* Set.add: a new element goes to the end of the iteration order
SetAdd(seq, h) == IF h \in Range(seq) THEN seq ELSE Append(seq, h)

\* subscribe(messageName, handler, {autoAck}): the Subscribe stream (shared,
\* created by the first call), the local entry, the subscription object;
\* h = "none" is the call without a handler; an entry that exists keeps its autoAck
GrpcSubscribeWith(t, h, aa) ==
    /\ grpc.call = "none"
    /\ grpc.isAuthenticated
    /\ grpc' = [grpc EXCEPT
           !.handle = TRUE,
           !.objects = @ \cup {t},
           !.stream = TRUE,
           !.registered = @ \cup {t},
           !.handlers[t] = (IF t \in grpc.registered THEN @ ELSE {})
                              \cup (IF h = "none" THEN {} ELSE {h}),
           !.order[t] = IF h = "none" THEN (IF t \in grpc.registered THEN @ ELSE <<>>)
                        ELSE SetAdd(IF t \in grpc.registered THEN @ ELSE <<>>, h),
           !.autoAck[t] = IF t \in grpc.registered THEN @ ELSE aa,
           !.rpc = <<"Subscribe">>, !.thrown = {}, !.invoked = {}]
    /\ UNCHANGED <<wsVars, http, crypto, converted>>

GrpcSubscribeTo(t, h) == GrpcSubscribeWith(t, h, FALSE)

GrpcSubscribe == GrpcSubscribeTo("t1", "none")

\* subscription.on(handler) -> #on: the handler is added when the entry exists
GrpcOn(t, h) ==
    /\ t \in grpc.objects
    /\ grpc' = [grpc EXCEPT
           !.handlers[t] = IF t \in grpc.registered THEN @ \cup {h} ELSE @,
           !.order[t] = IF t \in grpc.registered THEN SetAdd(@, h) ELSE @,
           !.rpc = <<>>, !.thrown = {}, !.invoked = {}]
    /\ UNCHANGED <<wsVars, http, crypto, converted>>

\* the function returned by #on: the handler is deleted from the entry
GrpcOff(t, h) ==
    /\ t \in grpc.objects
    /\ grpc' = [grpc EXCEPT
           !.handlers[t] = IF t \in grpc.registered THEN @ \ {h} ELSE @,
           !.order[t] = IF t \in grpc.registered THEN SelectSeq(@, LAMBDA x : x # h) ELSE @,
           !.rpc = <<>>, !.thrown = {}, !.invoked = {}]
    /\ UNCHANGED <<wsVars, http, crypto, converted>>

\* subscription.unsubscribe() -> #unsubscribe
GrpcUnsubscribe(t) ==
    /\ grpc.call = "none"
    /\ t \in grpc.objects
    /\ grpc' = IF t \notin grpc.registered
               THEN [grpc EXCEPT !.rpc = <<>>, !.invoked = {},
                                 !.thrown = {[op |-> "UNSUB", kind |-> "EnSyncSubscriptionError"]}]
               ELSE [grpc EXCEPT !.call = "Unsubscribe", !.topic = t,
                                 !.rpc = <<"Unsubscribe">>, !.thrown = {}, !.invoked = {}]
    /\ UNCHANGED <<wsVars, http, crypto, converted>>

RECURSIVE GrpcRunLoop(_, _)
\* the for-loop of the 'data' listener over subscription.handlers from Head(l.rest)
\* on, up to its next await: the client and the loop if it is suspended. A handler
\* that throws is caught and logged inside the loop; the acknowledgement follows
\* each handler that returned
GrpcRunLoop(g, l) ==
    IF l.rest = <<>> THEN [grpc |-> g, loop |-> <<>>]
    ELSE LET h == Head(l.rest)
             g1 == [g EXCEPT !.invoked = @ \cup {[topic |-> l.topic, handler |-> h]}]
             l1 == [l EXCEPT !.rest = Tail(@)]
         IN  IF Throws(h) THEN GrpcRunLoop(g1, l1)
             ELSE IF IsAsync(h) THEN [grpc |-> g1, loop |-> <<[l1 EXCEPT !.awaiting = "handler"]>>]
             ELSE IF l.autoAck
             THEN [grpc |-> [g1 EXCEPT !.rpc = Append(@, "AcknowledgeMessage")],
                   loop |-> <<[l1 EXCEPT !.awaiting = "ack", !.acks = @ + 1]>>]
             ELSE GrpcRunLoop(g1, l1)

\* the loops after the one at position i ran: it keeps its place or is gone
GrpcPut(g, i, r) ==
    [r.grpc EXCEPT !.loops = SubSeq(g.loops, 1, i - 1) \o r.loop
                             \o SubSeq(g.loops, i + 1, Len(g.loops))]

\* 'data' of the shared stream: a message for topic t that decrypts
GrpcData(t) ==
    /\ grpc.stream
    /\ Len(grpc.loops) < MaxFrames
    /\ \E g \in {[grpc EXCEPT !.invoked = {}, !.rpc = <<>>, !.thrown = {}, !.resumed = 0]} :
          grpc' = IF t \in grpc.registered
                  THEN GrpcPut(g, Len(grpc.loops) + 1,
                               GrpcRunLoop(g, [topic |-> t, rest |-> grpc.order[t],
                                               autoAck |-> grpc.autoAck[t],
                                               awaiting |-> "none", acks |-> 0]))
                  ELSE g
    /\ UNCHANGED <<wsVars, http, crypto, converted>>

\* the promise returned by the handler that loop i awaits is fulfilled (the
\* acknowledgement follows) or rejected (caught and logged, no acknowledgement)
GrpcHandlerDone(i, fulfilled) ==
    /\ i \in DOMAIN grpc.loops
    /\ grpc.loops[i].awaiting = "handler"
    /\ \E g \in {[grpc EXCEPT !.invoked = {}, !.rpc = <<>>, !.thrown = {}, !.resumed = i]} :
          grpc' = IF fulfilled /\ grpc.loops[i].autoAck
                  THEN GrpcPut(g, i, [grpc |-> [g EXCEPT !.rpc = <<"AcknowledgeMessage">>],
                                      loop |-> <<[grpc.loops[i] EXCEPT !.awaiting = "ack",
                                                                       !.acks = @ + 1]>>])
                  ELSE GrpcPut(g, i, GrpcRunLoop(g, grpc.loops[i]))
    /\ UNCHANGED <<wsVars, http, crypto, converted>>

\* the callback of the AcknowledgeMessage call that loop i awaits: resolved or
\* rejected, the loop goes on with the next handler
GrpcAckReply(i, success) ==
    /\ i \in DOMAIN grpc.loops
    /\ grpc.loops[i].awaiting = "ack"
    /\ \E g \in {[grpc EXCEPT !.invoked = {}, !.rpc = <<>>, !.thrown = {}, !.resumed = i,
                               !.lastAck = IF success THEN "successful" ELSE "failed"]} :
          grpc' = GrpcPut(g, i, GrpcRunLoop(g, grpc.loops[i]))
    /\ UNCHANGED <<wsVars, http, crypto, converted>>

\* the interval of #startHeartbeat fires
GrpcHeartbeatTimer ==
    /\ grpc.heartbeatTimeout
    /\ ~grpc.heartbeat
    /\ grpc' = IF grpc.isAuthenticated
               THEN [grpc EXCEPT !.heartbeat = TRUE, !.rpc = <<"Heartbeat">>,
                                 !.thrown = {}, !.invoked = {}]
               ELSE [grpc EXCEPT !.rpc = <<>>, !.thrown = {}, !.invoked = {}]
    /\ UNCHANGED <<wsVars, http, crypto, converted>>

\* the callback of the Heartbeat call: the outcome is logged
GrpcHeartbeatReply(success) ==
    /\ grpc.heartbeat
    /\ grpc' = [grpc EXCEPT !.heartbeat = FALSE,
                            !.lastHeartbeat = IF success THEN "successful" ELSE "failed",
                            !.rpc = <<>>, !.thrown = {}, !.invoked = {}]
    /\ UNCHANGED <<wsVars, http, crypto, converted>>

\* ---------------------------------------------------------- the HTTP client
\* new EnSyncEngine(url, options): a https url opens the HTTP/2 session, otherwise
\* the requests go through fetch
HttpEngine(isSecure) ==
    /\ http.engine = "none"
    /\ http' = [http EXCEPT !.engine = IF isSecure THEN "http2" ELSE "fetch",
                            !.session = IF isSecure THEN "open" ELSE "none", !.raised = {}]
    /\ UNCHANGED <<wsVars, grpc, crypto, converted>>

\* createClient(accessKey): the CONN request
HttpCreateClient ==
    /\ http.engine # "none"
    /\ ~http.client
    /\ ~http.endSession
    /\ http.request = "none"
    /\ http.clientId < MaxRenew
    /\ http' = [http EXCEPT !.request = "CONN", !.raised = {}]
    /\ UNCHANGED <<wsVars, grpc, crypto, converted>>

\* what a request that does not resolve raises: a rejected promise, or, for a -FAIL:
\* body on the HTTP/2 session, the throw inside the 'end' listener, which settles
\* nothing; nobody awaits the #renewClient call of the timer
HttpRaised(request, outcome, engine) ==
    IF outcome = "FAIL" /\ engine = "http2" THEN {"uncaughtException"}
    ELSE IF request = "RENEW" THEN {"unhandledRejection"}
    ELSE IF request = "CONN" THEN {"EnSyncConnectionError"}
    ELSE {"EnSyncGenericError"}

\* the request in progress ends: +PASS:, -FAIL:, or a stream/network error
HttpResponse(outcome) ==
    /\ http.request # "none"
    /\ http' =
         IF outcome # "PASS"
         THEN [http EXCEPT !.request = "none",
                           !.raised = HttpRaised(http.request, outcome, http.engine)]
         ELSE CASE http.request = "CONN" ->
                     [http EXCEPT !.request = "none", !.raised = {},
                                  !.clientId = @ + 1, !.client = TRUE,
                                  !.renewTimeout = TRUE, !.renewId = http.clientId + 1]
                [] http.request = "RENEW" ->
                     [http EXCEPT !.request = "none", !.raised = {},
                                  !.clientId = @ + 1,
                                  !.renewTimeout = TRUE, !.renewId = http.clientId + 1]
                [] OTHER ->
                     [http EXCEPT !.request = "none", !.raised = {},
                                  !.client = FALSE, !.renewTimeout = FALSE,
                                  !.endSession = @ \/ http.stopEngine]
    /\ UNCHANGED <<wsVars, grpc, crypto, converted>>

\* #renewTimeout fires: #renewClient sends RENEW unless the session was ended
HttpRenewTimer ==
    /\ http.renewTimeout
    /\ http.request = "none"
    /\ http.clientId < MaxRenew
    /\ http' = IF http.endSession
               THEN [http EXCEPT !.renewTimeout = FALSE, !.raised = {}]
               ELSE [http EXCEPT !.renewTimeout = FALSE, !.request = "RENEW", !.raised = {}]
    /\ UNCHANGED <<wsVars, grpc, crypto, converted>>

\* the 'error' and 'close' listeners of #connectWithRetry: each of them sets a timer
\* for #connectWithRetry unless the session was ended
Retry(h) == IF h.endSession THEN h ELSE [h EXCEPT !.retryTimeout = @ + 1]

\* 'error' of the HTTP/2 session (the session goes on to emit 'close')
HttpSessionError ==
    /\ http.session = "open"
    /\ http.retryTimeout < MaxRetry
    /\ http' = Retry([http EXCEPT !.session = "errored", !.raised = {}])
    /\ UNCHANGED <<wsVars, grpc, crypto, converted>>

\* 'close' of the HTTP/2 session, after an 'error' or without one
HttpSessionClose ==
    /\ http.session \in {"open", "errored"}
    /\ http.retryTimeout < MaxRetry
    /\ http' = Retry([http EXCEPT !.session = "closed", !.raised = {}])
    /\ UNCHANGED <<wsVars, grpc, crypto, converted>>

\* a timer of #connectWithRetry fires: this.#client = http2.connect(url)
HttpRetryTimer ==
    /\ http.retryTimeout > 0
    /\ http' = [http EXCEPT !.retryTimeout = @ - 1, !.session = "open", !.raised = {}]
    /\ UNCHANGED <<wsVars, grpc, crypto, converted>>

\* client.destroy(stopEngine): the CLOSE request; its continuation is in HttpResponse
HttpDestroy(stopEngine) ==
    /\ http.client
    /\ http.request = "none"
    /\ http' = [http EXCEPT !.request = "CLOSE", !.stopEngine = stopEngine, !.raised = {}]
    /\ UNCHANGED <<wsVars, grpc, crypto, converted>>

\* ------------------------------------------------------ key=value parser
\* a response block arrives: its items, padding and braces
Receive(items, pad, braces) ==
    /\ converted.op = "none"
    /\ converted' = [converted EXCEPT !.op = "received", !.items = items,
                                 !.data = Block(items, pad, braces)]
    /\ UNCHANGED <<wsVars, grpc, http, crypto>>

\* #convertKeyValueToObject(content)
Convert ==
    /\ converted.op = "received"
    /\ converted' = [converted EXCEPT !.op = "done",
                                 !.out = convertKeyValueToObject(converted.data).out,
                                 !.error = convertKeyValueToObject(converted.data).error]
    /\ UNCHANGED <<wsVars, grpc, http, crypto>>

\* ---------------------------------------------------------- crypto module
\* each behaviour follows one envelope from its encryption on
EncryptEd25519(P, k, enc) ==
    \E eph \in Ephemeral : \E n \in Nonces :
        /\ crypto.kind = "none"
        /\ crypto' = [NoEnvelope EXCEPT
               !.kind = "single", !.op = "encrypt", !.message = P, !.recipients = {k},
               !.envelope = <<encryptEd25519(P, PublicKey(k, enc), eph, n)>>]
        /\ UNCHANGED <<wsVars, grpc, http, converted>>

\* the functions are pure: a behaviour is one envelope, altered or not on its way,
\* and one call that opens it
DecryptEd25519(k, enc) ==
    /\ crypto.kind = "single"
    /\ crypto.op \in {"encrypt", "alter"}
    /\ crypto' = [crypto EXCEPT
           !.op = "decrypt", !.by = [pub |-> k, sec |-> k, enc |-> enc],
           !.out = decryptEd25519(crypto.envelope[1], SecretKey(k, enc))]
    /\ UNCHANGED <<wsVars, grpc, http, converted>>

HybridEncrypt(P, R, enc) ==
    \E mk \in MessageKeys : \E eph \in Ephemeral : \E n \in Nonces :
        /\ crypto.kind = "none"
        /\ crypto' = [NoEnvelope EXCEPT
               !.kind = "hybrid", !.op = "encrypt", !.message = P, !.recipients = R,
               !.envelope = <<hybridEncrypt(P, [i \in DOMAIN SeqOf(R) |->
                                                   PublicKey(SeqOf(R)[i], enc)],
                                            Bytes(mk), eph, n)>>]
        /\ UNCHANGED <<wsVars, grpc, http, converted>>

HybridDecrypt(kpub, ksec, enc) ==
    /\ crypto.kind = "hybrid"
    /\ crypto.op \in {"encrypt", "alter"}
    /\ crypto' = [crypto EXCEPT
           !.op = "decrypt", !.by = [pub |-> kpub, sec |-> ksec, enc |-> enc],
           !.out = hybridDecrypt(crypto.envelope[1], PublicKey(kpub, enc), SecretKey(ksec, enc))]
    /\ UNCHANGED <<wsVars, grpc, http, converted>>

\* a frame with the envelope reaches the dispatcher of the WebSocket client, whose
\* handler was attached with key a while the configuration holds b and clientHash c
DecryptPayload(a, b, c) ==
    /\ crypto.kind = "single"
    /\ crypto.op \in {"encrypt", "alter"}
    /\ crypto' = [crypto EXCEPT
           !.op = "decryptPayload", !.keys = <<a, b, c>>,
           !.out = decryptPayload(crypto.envelope[1], ConfiguredKey(a), ConfiguredKey(b),
                                  ConfiguredKey(c))]
    /\ UNCHANGED <<wsVars, grpc, http, converted>>

\* the same frame on the stream of the gRPC client
ProcessMessage(a, b, c) ==
    /\ crypto.kind # "none"
    /\ crypto.op \in {"encrypt", "alter"}
    /\ crypto' = [crypto EXCEPT
           !.op = "processMessage", !.keys = <<a, b, c>>,
           !.out = processMessage(crypto.kind, crypto.envelope[1], ConfiguredKey(a),
                                  ConfiguredKey(b), ConfiguredKey(c))]
    /\ UNCHANGED <<wsVars, grpc, http, converted>>

\* a byte of the ciphertext is flipped while the envelope is stored or in transit
AlterCiphertext ==
    /\ crypto.op = "encrypt"
    /\ crypto' = [crypto EXCEPT
           !.op = "alter", !.altered = "ciphertext",
           !.envelope = IF crypto.kind = "single"
                        THEN <<[@[1] EXCEPT !.ciphertext.altered = TRUE]>>
                        ELSE <<[@[1] EXCEPT !.encryptedPayload.ciphertext.altered = TRUE]>>]
    /\ UNCHANGED <<wsVars, grpc, http, converted>>

\* a byte of the message key wrapped for recipient r is flipped
AlterEncryptedKey(r) ==
    /\ crypto.kind = "hybrid"
    /\ crypto.op = "encrypt"
    /\ r \in crypto.recipients
    /\ crypto' = [crypto EXCEPT
           !.op = "alter", !.altered = "encryptedKey", !.alteredFor = r,
           !.envelope = <<[@[1] EXCEPT !.encryptedKeys =
                {IF e.id.pair = r THEN [e EXCEPT !.key.encryptedKey.altered = TRUE] ELSE e
                 : e \in @}]>>]
    /\ UNCHANGED <<wsVars, grpc, http, converted>>

\* 'end' of the shared stream
GrpcStreamEnd ==
    /\ grpc.stream
    /\ grpc' = [grpc EXCEPT !.stream = FALSE, !.rpc = <<>>, !.thrown = {}, !.invoked = {}]
    /\ UNCHANGED <<wsVars, http, crypto, converted>>

\* subscription.defer(messageIdem, delayMs) -> #deferMessage
GrpcDefer(d) ==
    /\ grpc.call = "none"
    /\ grpc.handle
    /\ grpc' = [grpc EXCEPT !.call = "DeferMessage", !.rpc = <<"DeferMessage">>,
                            !.delay_ms = d, !.thrown = {}, !.invoked = {}]
    /\ UNCHANGED <<wsVars, http, crypto, converted>>

\* publish -> _publishInternal
GrpcPublish(recipients) ==
    /\ grpc.call = "none"
    /\ grpc.isAuthenticated
    /\ grpc' = IF recipients \in {"notarray", "empty"}
               THEN [grpc EXCEPT !.rpc = <<>>, !.invoked = {},
                                 !.thrown = {[op |-> "PUB", kind |-> "EnSyncAuthError"]}]
               ELSE [grpc EXCEPT !.call = "PublishMessage", !.rpc = <<"PublishMessage">>,
                                 !.thrown = {}, !.invoked = {}]
    /\ UNCHANGED <<wsVars, http, crypto, converted>>

\* subscription.on(handler) of a subscription object the application holds, for
\* an application that attaches up to n handlers to a topic
OnUpTo(t, h, n) ==
    /\ Running
    /\ handles[t] # "none"
    /\ Len(HandlersOf(subscriptions, t)) < n
    /\ Len(appHandlers[t]) < n
    /\ LET w == [handler |-> h, autoAck |-> (handles[t] = "ack")]
       IN  /\ Commit([Machine EXCEPT !.subs = on(@, t, w)])
           /\ appHandlers' = [appHandlers EXCEPT ![t] = Append(@, w)]
    /\ UNCHANGED <<ws, connCaller, pingInFlight, closedWith, attemptsNoOpen, attemptsNoAuth, closeWaiters, grpc, http, crypto, converted>>

On(t, h) == OnUpTo(t, h, MaxHandlers)

\* the application calls the function that on(h) returned
Off(t, h) ==
    /\ Running
    /\ \E k \in DOMAIN appHandlers[t] : appHandlers[t][k].handler = h
    /\ Commit([Machine EXCEPT !.subs = off(@, t, h)])
    /\ appHandlers' = [appHandlers EXCEPT ![t] = SelectSeq(@, LAMBDA w : w.handler # h)]
    /\ UNCHANGED <<ws, connCaller, pingInFlight, closedWith, attemptsNoOpen, attemptsNoAuth, closeWaiters, grpc, http, crypto, converted>>

\* subscription.unsubscribe()
Unsubscribe(t) ==
    /\ Running
    /\ handles[t] # "none"
    /\ state.isAuthenticated
    /\ Commit(sendMessage(Machine, NewReq("UNSUB", t, "app", FALSE, "none", <<>>)))
    /\ appHandlers' = [appHandlers EXCEPT ![t] = <<>>]
    /\ UNCHANGED <<ws, connCaller, pingInFlight, closedWith, attemptsNoOpen, attemptsNoAuth, closeWaiters, grpc, http, crypto, converted>>

\* Close without the #clearTimers call
CloseKeepsTimers ==
    /\ Running
    /\ closeWaiters < MaxClose
    /\ ws' = IF ws \in {"connecting", "open"} THEN "closing" ELSE ws
    /\ closeWaiters' = IF ws = "none" THEN closeWaiters ELSE closeWaiters + 1
    /\ Commit([Machine EXCEPT !.state.shouldReconnect = FALSE])
    /\ UNCHANGED <<connCaller, pingInFlight, appHandlers, closedWith, attemptsNoOpen, attemptsNoAuth, grpc, http, crypto, converted>>

\* close(): no reconnect from now on, timers cleared, this.#ws.once('close', resolve)
\* and ws.close(), which does nothing on a socket that is CLOSED; without a socket
\* the promise resolves at once
Close ==
    /\ Running
    /\ closeWaiters < MaxClose
    /\ ws' = IF ws \in {"connecting", "open"} THEN "closing" ELSE ws
    /\ closeWaiters' = IF ws = "none" THEN closeWaiters ELSE closeWaiters + 1
    /\ Commit([Machine EXCEPT !.state = clearTimers([@ EXCEPT !.shouldReconnect = FALSE])])
    /\ UNCHANGED <<connCaller, pingInFlight, appHandlers, closedWith, attemptsNoOpen, attemptsNoAuth, grpc, http, crypto, converted>>

\* the request machinery over the lifetime of one transport, until the peer or the
\* network closes it: one topic, a handler that returns a plain value
Next ==
    \/ Tick
    \/ CreateClient
    \/ Open
    \/ \E kind \in Responses : RecvResponse(kind)
    \/ RecvPing
    \/ \E dec \in BOOLEAN : RecvRecord("t1", dec)
    \/ \E s \in Slots : Timeout(s)
    \/ TransportClose
    \/ Publish
    \/ Subscribe("t1", TRUE)
    \/ On("t1", "h2")

Spec == Init /\ [][Next]_vars

\* timers of the event loop fire
FairSpec == Spec /\ \A s \in Slots : WF_vars(Timeout(s))

\* no request is outstanding
Quiet == reqs = <<>> /\ messageCallbacks = <<>>

\* replay of the subscriptions: two topics, each with its own handler (both return a
\* plain value), no auto-acknowledge, a transport that opens whenever it is tried,
\* an application that awaits each call before it makes the next
NextReplay ==
    \/ CreateClient
    \/ Open
    \/ \E kind \in Responses : RecvResponse(kind)
    \/ \E t \in Topics : RecvRecord(t, TRUE)
    \/ \E s \in Slots : Timeout(s)
    \/ TransportClose
    \/ ReconnectTimer
    \/ \E t \in Topics : Quiet /\ Subscribe(t, FALSE)
    \/ Quiet /\ On("t1", "h2")
    \/ Quiet /\ On("t2", "h3")
    \/ \E t \in Topics : Quiet /\ Unsubscribe(t)

ReplaySpec == Init /\ [][NextReplay]_vars

\* reconnection: an application that only connects and closes
NextReconnect ==
    \/ CreateClient
    \/ Open
    \/ \E kind \in Responses : RecvResponse(kind)
    \/ \E s \in Slots : Timeout(s)
    \/ TransportError
    \/ TransportClose
    \/ ReconnectTimer
    \/ PingTimer
    \/ Pong
    \/ Close

ReconnectSpec == Init /\ [][NextReconnect]_vars

\* an engine that answers every command exactly once and in order, a transport that
\* closes and reopens, an application that awaits each call before it makes the next
NextOrderly ==
    \/ CreateClient
    \/ Open
    \/ \E kind \in Responses : owed.q # <<>> /\ RecvResponse(kind)
    \/ \E s \in Slots : Timeout(s)
    \/ TransportClose
    \/ ReconnectTimer
    \/ Quiet /\ Publish
    \/ Quiet /\ Subscribe("t1", FALSE)

OrderlySpec == InitOrderly /\ [][NextOrderly]_vars

\* commands and authentication: a transport that closes and reopens, one topic with
\* auto-acknowledge and an async handler, an application that calls publish,
\* subscribe and defer while the client is not authenticated
NextAuth ==
    \/ CreateClient
    \/ Open
    \/ \E kind \in Responses : RecvResponse(kind)
    \/ \E s \in Slots : Timeout(s)
    \/ TransportClose
    \/ ReconnectTimer
    \/ RecvPing
    \/ Quiet /\ Subscribe("t1", TRUE)
    \/ Quiet /\ On("t1", "h1")
    \/ \E verb \in {"PUB", "SUB", "DEFER"} : NotAuthenticated(verb, "t1")
    \/ RecvRecord("t1", TRUE)
    \/ \E i \in 1..MaxJobs : HandlerDone(i)

AuthSpec == Init /\ [][NextAuth]_vars

\* commands on a socket that is closing: an application that calls close() and goes
\* on to publish
NextClosing ==
    \/ Tick
    \/ CreateClient
    \/ Open
    \/ \E kind \in Responses : RecvResponse(kind)
    \/ \E s \in Slots : Timeout(s)
    \/ TransportClose
    \/ Close
    \/ Publish

ClosingSpec == Init /\ [][NextClosing]_vars

\* dispatch of pushed frames: one topic subscribed with auto-acknowledge, up to
\* MaxFanout handlers (async, plain, throwing) attached while nothing is outstanding
NextDispatch ==
    \/ Tick
    \/ CreateClient
    \/ Open
    \/ \E kind \in Responses : RecvResponse(kind)
    \/ \E s \in Slots : Timeout(s)
    \/ Quiet /\ Subscribe("t1", TRUE)
    \/ \E h \in {"h1", "h2", "h4"} : Quiet /\ OnUpTo("t1", h, MaxFanout)
    \/ \E dec \in BOOLEAN : RecvRecord("t1", dec)
    \/ \E i \in 1..MaxJobs : HandlerDone(i)
    \/ \E i \in 1..MaxJobs : HandlerFail(i)

DispatchSpec == Init /\ [][NextDispatch]_vars

\* the commands of both clients: an application that awaits each call of the
\* WebSocket client before it makes the next
NextCommand ==
    \/ CreateClient
    \/ Open
    \/ \E kind \in Responses : RecvResponse(kind)
    \/ \E s \in Slots : Timeout(s)
    \/ Quiet /\ Subscribe("t1", FALSE)
    \/ Quiet /\ Unsubscribe("t1")
    \/ \E verb \in Commands : Quiet /\ Command(verb, "t1")
    \/ \E d \in Delays : Quiet /\ Defer(d)
    \/ \E rc \in Recipients : Quiet /\ PublishWith(rc)
    \/ GrpcCreateClient
    \/ \E success \in BOOLEAN : GrpcReply(success)
    \/ GrpcSubscribe
    \/ \E d \in Delays : GrpcDefer(d)
    \/ \E rc \in Recipients : GrpcPublish(rc)

CommandSpec == Init /\ [][NextCommand]_vars

\* the subscriptions of the gRPC client over one shared stream
NextGrpc ==
    \/ GrpcCreateClient
    \/ \E success \in BOOLEAN : GrpcReply(success)
    \/ \E t \in Topics : \E h \in GrpcHandlers \cup {"none"} : GrpcSubscribeTo(t, h)
    \/ \E t \in Topics : \E h \in GrpcHandlers : GrpcOn(t, h)
    \/ \E t \in Topics : \E h \in GrpcHandlers : GrpcOff(t, h)
    \/ \E t \in Topics : GrpcUnsubscribe(t)
    \/ \E t \in Topics : GrpcData(t)
    \/ GrpcStreamEnd

GrpcSpec == Init /\ [][NextGrpc]_vars

\* no loop of the 'data' listener is suspended
GrpcIdle == grpc.loops = <<>>

\* dispatch of the frames of the shared stream of the gRPC client: handlers (async,
\* plain, throwing) are attached while no frame is being processed, with or
\* without auto-acknowledge
NextGrpcDispatch ==
    \/ GrpcCreateClient
    \/ \E success \in BOOLEAN : GrpcReply(success)
    \/ GrpcIdle /\ \E h \in {"h1", "h2", "h4"} : \E aa \in BOOLEAN : GrpcSubscribeWith("t1", h, aa)
    \/ GrpcIdle /\ \E h \in {"h1", "h2", "h4"} : GrpcOn("t1", h)
    \/ GrpcUnsubscribe("t1")
    \/ GrpcData("t1")
    \/ \E i \in 1..MaxFrames : \E fulfilled \in BOOLEAN : GrpcHandlerDone(i, fulfilled)
    \/ \E i \in 1..MaxFrames : \E success \in BOOLEAN : GrpcAckReply(i, success)

GrpcDispatchSpec == Init /\ [][NextGrpcDispatch]_vars

\* the subscription registry of either client, for an application that uses one of
\* the two clients, awaits each command before the next and attaches each handler
\* function to a topic at most once
UsesWs == ws # "none"
UsesGrpc == grpc.call # "none" \/ grpc.isAuthenticated \/ grpc.thrown # {}

NextRegistry ==
    \/ ~UsesGrpc /\ CreateClient
    \/ Open
    \/ \E kind \in Responses : RecvResponse(kind)
    \/ \E s \in Slots : Timeout(s)
    \/ TransportClose
    \/ \E t \in Topics : Quiet /\ Subscribe(t, FALSE)
    \/ \E t \in Topics : \E h \in GrpcHandlers :
          /\ \A k \in DOMAIN appHandlers[t] : appHandlers[t][k].handler # h
          /\ OnUpTo(t, h, MaxFanout)
    \/ \E t \in Topics : \E h \in GrpcHandlers : Off(t, h)
    \/ \E t \in Topics : Quiet /\ Unsubscribe(t)
    \/ \E t \in Topics : RecvRecord(t, TRUE)
    \/ ~UsesWs /\ NextGrpc

RegistrySpec == Init /\ [][NextRegistry]_vars

\* session renewal: the RENEW timer of the HTTP client and the heartbeat of the gRPC client
NextRenew ==
    \/ \E isSecure \in BOOLEAN : HttpEngine(isSecure)
    \/ HttpCreateClient
    \/ \E outcome \in {"PASS", "FAIL", "error"} : HttpResponse(outcome)
    \/ HttpRenewTimer
    \/ HttpSessionError
    \/ HttpSessionClose
    \/ HttpRetryTimer
    \/ \E stopEngine \in BOOLEAN : HttpDestroy(stopEngine)
    \/ GrpcCreateClient
    \/ \E success \in BOOLEAN : GrpcReply(success)
    \/ GrpcHeartbeatTimer
    \/ \E success \in BOOLEAN : GrpcHeartbeatReply(success)

RenewSpec == Init /\ [][NextRenew]_vars

\* the crypto module applied to plaintexts, key pairs and encodings of the keys
NextCrypto ==
    \/ \E P \in Plaintexts : \E k \in KeyPairs : \E enc \in Encodings : EncryptEd25519(P, k, enc)
    \/ \E k \in KeyPairs : \E enc \in Encodings : DecryptEd25519(k, enc)
    \/ \E P \in Plaintexts : \E R \in SUBSET KeyPairs \ {{}} : \E enc \in Encodings :
          HybridEncrypt(P, R, enc)
    \/ \E kpub \in KeyPairs : \E ksec \in KeyPairs : \E enc \in Encodings :
          HybridDecrypt(kpub, ksec, enc)
    \/ AlterCiphertext
    \/ \E r \in KeyPairs : AlterEncryptedKey(r)
    \/ \E a \in ConfigKeys : \E b \in ConfigKeys : \E c \in ConfigKeys : DecryptPayload(a, b, c)
    \/ \E a \in ConfigKeys : \E b \in ConfigKeys : \E c \in ConfigKeys : ProcessMessage(a, b, c)

CryptoSpec == Init /\ [][NextCrypto]_vars

\* the parser applied to the blocks of up to MaxItems items
NextParse ==
    \/ \E n \in 1..MaxItems : \E items \in [1..n -> BlockKeys \X BlockValues] :
          \E pad \in Pads : \E braces \in BOOLEAN : Receive(items, pad, braces)
    \/ Convert

ParseSpec == Init /\ [][NextParse]_vars


\* ------------------------------------------------------------- properties
IsPending(s) == \E i \in DOMAIN reqs : reqs[i].slot = s /\ reqs[i].status = "pending"
InMap(s) == \E i \in DOMAIN messageCallbacks : messageCallbacks[i].req = s
PendingIdx == {i \in DOMAIN reqs : reqs[i].status = "pending"}
\* the request that was sent first among those not yet settled
OldestPending == reqs[CHOOSE i \in PendingIdx : \A j \in PendingIdx : i <= j].slot

\* C1: a response frame (+PASS:, +REPLAY:, -FAIL:) that arrives while requests are
\* pending settles the one that was sent first, whatever the verbs and however
\* close in time the sends were
C1_FifoMatching ==
    [][("message" \in emitted' /\ PendingIdx # {})
        => \E x \in settled' : x.slot = OldestPending /\ x.outcome \in Responses]_vars

\* C2: once the transport has closed no request is left pending: all were rejected
\* by the close and the pending-request map is empty
C2_CloseRejectsAll ==
    ws = "closed" => (messageCallbacks = <<>> /\ PendingIdx = {})

\* C3: when the timeout of one request fires, every other pending request keeps
\* its entry in the pending-request map, so a later response can still settle it
C3_TimeoutOnlyItsOwn ==
    [][\A x \in settled' : x.outcome = "timeout" =>
          \A i \in DOMAIN reqs :
              (reqs[i].slot # x.slot /\ reqs[i].status = "pending" /\ InMap(reqs[i].slot))
              => \E j \in DOMAIN messageCallbacks' : messageCallbacks'[j].req = reqs[i].slot]_vars

\* C4: every request that was sent is settled eventually (a request stops being
\* pending only in a turn that settles it, and no request stays pending forever),
\* its callbacks are called at most once, and once it is settled its timer is not armed
C4_SettledExactlyOnce ==
    /\ [](\A i \in DOMAIN reqs :
            /\ reqs[i].calls <= 1
            /\ (reqs[i].status # "pending" => ~reqs[i].timer)
            /\ (reqs[i].status = "pending" => reqs[i].timer))
    /\ [][\A s \in Slots :
            (IsPending(s) /\ ~IsPending(s)') => \E x \in settled' : x.slot = s]_vars
    /\ \A s \in Slots : []<>(~IsPending(s))

\* a response settled one request while another one is still pending with its timer armed
C4_Witness ==
    /\ \E x \in settled : x.slot # 0 /\ x.outcome \in Responses
    /\ \E i \in DOMAIN reqs : reqs[i].status = "pending" /\ reqs[i].timer

C6_BothTopicsReplayed ==
    ("reconnect" \in emitted /\ \A t \in Topics : HandlersOf(closedWith, t) # <<>>)
    => \A t \in Topics :
          /\ t \in subSent
          /\ Range(HandlersOf(closedWith, t)) \subseteq Range(HandlersOf(subscriptions, t))

\* C7: whenever no request is outstanding, a topic whose handlers the application
\* registered and did not unsubscribe is in the subscription registry with those
\* handlers, whatever disconnects and reconnects have happened
C7_RegistrySurvives ==
    Quiet => \A t \in Topics :
        appHandlers[t] # <<>> =>
            /\ HasSub(subscriptions, t)
            /\ Range(appHandlers[t]) \subseteq Range(HandlersOf(subscriptions, t))

\* C8: while the transport does not open, at most maxReconnectAttempts reconnect
\* attempts are made; after a close a further attempt is scheduled as long as fewer
\* were made, and none is scheduled once maxReconnectAttempts were made
C8_AttemptsBounded ==
    /\ attemptsNoOpen <= maxReconnectAttempts
    /\ (ws = "closed" /\ attemptsNoOpen = maxReconnectAttempts) => ~state.reconnectTimeout
    /\ (ws = "closed" /\ state.shouldReconnect /\ attemptsNoOpen < maxReconnectAttempts)
           => state.reconnectTimeout

\* the last of maxReconnectAttempts attempts has failed and the client gives up
C8_Witness ==
    /\ "givingUp" \in emitted
    /\ attemptsNoOpen = maxReconnectAttempts
    /\ ~state.reconnectTimeout

\* C9: the close that exhausts the reconnect attempts delivers an error event to
\* the error listeners
C9_TerminalErrorEvent ==
    "givingUp" \in emitted => "error" \in emitted

\* C10: no more than maxReconnectAttempts reconnect attempts are made in a row
\* without an authentication succeeding in between
C10_GivesUpWithoutAuth ==
    attemptsNoAuth <= maxReconnectAttempts

\* C11: once close() has been called no reconnect is scheduled and the reconnect
\* timer never calls connect(): the only way to a new transport is a connect of
\* the application
C11_NoReconnectAfterClose ==
    [][~state.shouldReconnect =>
          /\ ~state'.shouldReconnect
          /\ ~state'.reconnectTimeout
          /\ (ws # "connecting" /\ ws' = "connecting") => connCaller' = "user"]_vars

\* close() was called while the reconnect timer was pending or its connect() was
\* in progress, and the transport has closed since
C11_Witness ==
    /\ ~state.shouldReconnect
    /\ ws = "closed"
    /\ attemptsNoOpen > 0
    /\ "close" \in emitted

\* C12: a close() whose promise has not resolved has the 'close' event of its
\* socket still to come, so every close() completes, in whatever state it is called
C12_CloseCompletes ==
    closeWaiters > 0 => ws \in {"closing", "failed"}

\* C13: when CONN is answered -FAIL:, connect() rejects with an EnSyncAuthError
\* and the client schedules no reconnect in that turn
C13_AuthFailRejects ==
    [][\A i \in DOMAIN reqs :
          (reqs[i].verb = "CONN" /\ [slot |-> reqs[i].slot, outcome |-> "FAIL"] \in settled')
          => /\ [op |-> "connect", kind |-> "EnSyncAuthError"] \in thrown'
             /\ ~state'.reconnectTimeout]_vars

\* C14: in the turn that dispatches a frame no handler is invoked while a handler
\* invoked before it for the same frame still waits for the promise it returned
C14_HandlersSequential ==
    \A k \in DOMAIN invoked : \A j \in 1..(k - 1) :
        ~\E q \in DOMAIN jobs : /\ jobs[q].handler = invoked[j].handler
                                /\ jobs[q].topic = invoked[j].topic

AckCount(w) == Cardinality({k \in DOMAIN w : w[k][1] = "ACK"})
\* handler invocations that started in the step and returned a promise
Started == Cardinality({k \in DOMAIN invoked' : IsAsync(invoked'[k].handler)})
\* handler invocations that completed in the step, the returned promise included
Completed == (Len(invoked') - Started) + (Len(jobs) + Started - Len(jobs'))

\* C15: the ACK commands written in a turn are never more than the handler
\* invocations that completed in that turn: an ACK is sent only once the handler,
\* and the promise it returned, has completed
C15_AckAfterHandler ==
    [][AckCount(wire') <= Completed]_vars

\* the promise of an async handler was fulfilled and the ACK was written in that turn
C15_Witness ==
    /\ AckCount(wire) = 1
    /\ invoked = <<>>
    /\ "asyncHandlerError" \notin emitted

\* C16: no ACK is written in the turn in which the promise of a handler is
\* rejected, nor in a turn in which every invoked handler threw
C16_NoAckAfterHandlerError ==
    [][/\ "asyncHandlerError" \in emitted' => AckCount(wire') = 0
       /\ (invoked' # <<>> /\ \A k \in DOMAIN invoked' : Throws(invoked'[k].handler))
             => AckCount(wire') = 0]_vars

\* C17: a frame whose payload does not decrypt invokes no handler, writes nothing
\* to the transport, raises nothing and leaves the connection, the registry, the
\* requests and the handlers in progress as they were
C17_UndecryptableDropped ==
    [][("dropped" \in emitted') =>
          /\ invoked' = <<>>
          /\ wire' = <<>>
          /\ thrown' = {}
          /\ emitted' = {"dropped"}
          /\ <<ws, state, subscriptions, jobs, reqs, messageCallbacks>>' =
             <<ws, state, subscriptions, jobs, reqs, messageCallbacks>>]_vars

\* an undecryptable frame arrived for a topic with handlers while a handler of an
\* earlier frame is in progress
C17_Witness ==
    /\ "dropped" \in emitted
    /\ HandlersOf(subscriptions, "t1") # <<>>
    /\ jobs # <<>>

\* C18: defer with a delay that is neither 0 nor within [1000, 86400000] fails with a
\* validation error and sends no command, in the WebSocket client and in the gRPC
\* client; with a delay of 0 or within the range the command is sent, and the call
\* raises nothing when the engine answers success.
C18_DeferBounds ==
    [][\A d \in Delays :
          LET inRange == d = 0 \/ (d >= 1000 /\ d <= 86400000) IN
          /\ (Defer(d) /\ ~inRange)
                => /\ thrown' = {[op |-> "DEFER", kind |-> "EnSyncValidationError"]}
                   /\ wire' = <<>>
          /\ (Defer(d) /\ inRange)
                => /\ wire' = << <<"DEFER", NoTopic>> >>
                   /\ thrown' = {}
          /\ (GrpcDefer(d) /\ ~inRange)
                => /\ grpc'.thrown = {[op |-> "DEFER", kind |-> "EnSyncValidationError"]}
                   /\ grpc'.rpc = <<>>
          /\ (GrpcDefer(d) /\ inRange)
                => /\ grpc'.rpc = <<"DeferMessage">>
                   /\ grpc'.thrown = {}
          /\ (grpc.call = "DeferMessage" /\ GrpcReply(TRUE)) => grpc'.thrown = {}
          /\ \A i \in DOMAIN reqs :
                (reqs[i].verb = "DEFER" /\ [slot |-> reqs[i].slot, outcome |-> "PASS"] \in settled')
                => thrown' = {}]_vars

\* C19: publish with a recipients argument that is not a list, or with an empty list,
\* fails with a validation error and nothing is written to the transport, in the
\* WebSocket client and in the gRPC client.
C19_EmptyRecipientsRejected ==
    [][\A rc \in {"notarray", "empty"} :
          /\ PublishWith(rc)
                => /\ thrown' = {[op |-> "PUB", kind |-> "EnSyncValidationError"]}
                   /\ wire' = <<>>
          /\ GrpcPublish(rc)
                => /\ grpc'.thrown = {[op |-> "PUB", kind |-> "EnSyncValidationError"]}
                   /\ grpc'.rpc = <<>>]_vars

\* C20: WebSocket client: when a SUB, UNSUB, PAUSE, CONTINUE, DEFER, DISCARD or REPLAY
\* command of the application is answered with -FAIL:, the operation rejects with
\* the error kind of its verb.
C20_FailKindOfVerb ==
    [][\A i \in DOMAIN reqs :
          LET verb == reqs[i].verb
              kindOf == CASE verb \in {"SUB", "UNSUB"} -> "EnSyncSubscriptionError"
                          [] verb = "PAUSE" -> "EnSyncPauseError"
                          [] verb = "CONTINUE" -> "EnSyncContinueError"
                          [] verb = "DEFER" -> "EnSyncDeferError"
                          [] verb = "DISCARD" -> "EnSyncDiscardError"
                          [] OTHER -> "EnSyncReplayError"
          IN (/\ reqs[i].origin = "app"
              /\ verb \in {"SUB", "UNSUB", "PAUSE", "CONTINUE", "DEFER", "DISCARD", "REPLAY"}
              /\ [slot |-> reqs[i].slot, outcome |-> "FAIL"] \in settled')
             => thrown' = {[op |-> verb, kind |-> kindOf]}]_vars

\* C21: gRPC client: a successful unsubscribe of a topic removes only that topic's
\* local subscription; the shared stream stays as it was, the other topics keep
\* their subscriptions and handlers and go on receiving frames, and a frame that
\* arrives for a topic without a local subscription invokes no handler.
C21_UnsubscribeOnlyThatTopic ==
    [][/\ (grpc.call = "Unsubscribe" /\ grpc'.call = "none" /\ grpc'.thrown = {})
            => /\ grpc'.registered = grpc.registered \ {grpc.topic}
               /\ grpc'.stream = grpc.stream
               /\ \A u \in Topics \ {grpc.topic} : grpc'.handlers[u] = grpc.handlers[u]
       /\ \A x \in grpc'.invoked : x.topic \in grpc.registered
       /\ \A u \in Topics :
             (GrpcData(u) /\ u \in grpc.registered)
                => grpc'.invoked = {[topic |-> u, handler |-> h] : h \in grpc.handlers[u]}]_vars

\* t1 was unsubscribed, and a frame for t2 reached t2's handler over the shared stream
C21_Witness ==
    /\ "t1" \in grpc.objects /\ "t1" \notin grpc.registered
    /\ grpc.stream
    /\ \E x \in grpc.invoked : x.topic = "t2"

\* C22: in every reachable state a topic that is registered with the engine (its SUB
\* was acknowledged and it was not unsubscribed) has at least one handler in its
\* local handler set, in the WebSocket client and in the gRPC client.
C22_RegisteredHasHandler ==
    /\ \A t \in Topics : HasSub(subscriptions, t) => HandlersOf(subscriptions, t) # <<>>
    /\ \A t \in grpc.registered : grpc.handlers[t] # {}

\* C23: removing the last handler of a topic, by calling the function that on returned,
\* unsubscribes the topic: in that step an UNSUB (the Unsubscribe call of the gRPC
\* client) for the topic is sent to the engine.
C23_LastHandlerUnsubscribes ==
    [][\A t \in Topics : \A h \in GrpcHandlers :
          /\ (Off(t, h) /\ Len(HandlersOf(subscriptions, t)) = 1
                        /\ HandlersOf(subscriptions, t)[1].handler = h)
                => <<"UNSUB", t>> \in Range(wire')
          /\ (GrpcOff(t, h) /\ t \in grpc.registered /\ grpc.handlers[t] = {h})
                => (grpc'.rpc = <<"Unsubscribe">> /\ grpc'.topic = t)]_vars

\* C24: while the session is active, renewal does not stop: when a RENEW request of
\* the HTTP client ends, the renewal timer is armed again for the client id in use,
\* or a reconnection is scheduled; when a Heartbeat call of the gRPC client ends,
\* its heartbeat timer is armed.
C24_RenewalNeverStops ==
    [][/\ (http.request = "RENEW" /\ http'.request = "none" /\ http'.client /\ ~http'.endSession)
            => \/ http'.renewTimeout /\ http'.renewId = http'.clientId
               \/ http'.retryTimeout > 0
       /\ (grpc.heartbeat /\ ~grpc'.heartbeat /\ grpc'.isAuthenticated)
            => grpc'.heartbeatTimeout]_vars

\* C25: for every plaintext P and key pair K, decryptEd25519 of encryptEd25519(P,
\* K.public) with K.secret returns P, whether the keys are bytes or base64 strings.
C25_RoundTripSingle ==
    (crypto.op = "decrypt" /\ crypto.kind = "single" /\ crypto.altered = "none"
        /\ crypto.by.sec \in crypto.recipients)
    => (crypto.out.error = "none" /\ crypto.out.value = crypto.message)

\* the empty plaintext came back to the recipient, who passed the key as base64
C25_Witness ==
    /\ crypto.op = "decrypt" /\ crypto.kind = "single" /\ crypto.altered = "none"
    /\ crypto.by.sec \in crypto.recipients
    /\ crypto.message = "" /\ crypto.out.error = "none"
    /\ crypto.by.enc = "base64"

\* C26: for every plaintext P and non-empty recipient list R, every recipient k of R
\* gets P back from hybridDecrypt(hybridEncrypt(P, R), k.public, k.secret).
C26_RoundTripHybrid ==
    (crypto.op = "decrypt" /\ crypto.kind = "hybrid" /\ crypto.altered = "none"
        /\ crypto.by.pub \in crypto.recipients /\ crypto.by.sec = crypto.by.pub)
    => (crypto.out.error = "none" /\ crypto.out.value = crypto.message)

\* the last of three recipients decrypted the envelope
C26_Witness ==
    /\ crypto.op = "decrypt" /\ crypto.kind = "hybrid" /\ crypto.altered = "none"
    /\ Cardinality(crypto.recipients) > 1
    /\ crypto.by.sec = crypto.by.pub
    /\ crypto.by.pub \in crypto.recipients
    /\ \A k \in crypto.recipients : k <= crypto.by.pub
    /\ crypto.out.error = "none"

\* C27: hybridDecrypt with a key pair whose public key is not among the recipients of
\* the envelope fails with the recipient-not-found error and returns no plaintext.
C27_NonRecipientExcluded ==
    (crypto.op = "decrypt" /\ crypto.kind = "hybrid" /\ crypto.by.pub \notin crypto.recipients)
    => crypto.out = ThrowError("No encrypted key found for this recipient")

\* a key pair outside the recipients tried to decrypt an unaltered envelope
C27_Witness ==
    /\ crypto.op = "decrypt" /\ crypto.kind = "hybrid" /\ crypto.altered = "none"
    /\ crypto.by.pub \notin crypto.recipients /\ crypto.by.sec = crypto.by.pub
    /\ crypto.out.error # "none"

\* C28: decryption with a secret key that does not match the recipient key, or of an
\* envelope whose ciphertext or wrapped key was altered, fails with an error and
\* returns no plaintext.
C28_WrongKeyOrAlteredFails ==
    (/\ crypto.op = "decrypt"
     /\ \/ crypto.altered = "ciphertext"
        \/ crypto.altered = "encryptedKey" /\ crypto.alteredFor = crypto.by.pub
        \/ crypto.kind = "single" /\ crypto.by.sec \notin crypto.recipients
        \/ crypto.kind = "hybrid" /\ crypto.by.sec # crypto.by.pub)
    => (crypto.out.error # "none" /\ crypto.out.value = Null)

\* a recipient tried to decrypt an envelope whose ciphertext was altered
C28_Witness ==
    /\ crypto.op = "decrypt" /\ crypto.altered = "ciphertext"
    /\ crypto.by.sec \in crypto.recipients /\ crypto.by.pub = crypto.by.sec
    /\ crypto.out.error = "Failed to decrypt: authentication failed"

\* C29: connect() always settles: when the transport of a connect() of the
\* application fails to open ('error', then 'close', never 'open'), the promise is
\* rejected with a connection error by the turn of the 'close' event at the latest
C29_FailedOpenRejects ==
    [][(connCaller = "user" /\ ws = "failed" /\ ~state.isConnected /\ ws' = "closed")
          => \E x \in thrown \cup thrown' : x.op = "connect"]_vars

\* C30: subscribe(topic) leaves the registry alone in the turn that sends SUB and
\* adds the topic in the turn SUB is answered +PASS:, the response that arrives
\* when SUB is the oldest request without an answer; when SUB is settled by -FAIL:,
\* by another response, by the timeout or by the loss of the connection, subscribe
\* raises an error and the registry is exactly as it was before that turn
C30_SubscribeRegistersOnPass ==
    [][/\ \A t \in Topics : \A aa \in BOOLEAN :
            Subscribe(t, aa) => (subscriptions' = subscriptions /\ handles' = handles)
       /\ \A i \in DOMAIN reqs :
            (reqs[i].origin = "app" /\ reqs[i].verb = "SUB")
            => /\ [slot |-> reqs[i].slot, outcome |-> "PASS"] \in settled'
                    => /\ HasSub(subscriptions', reqs[i].topic)
                       /\ reqs[i].slot = OldestPending
               /\ (\E x \in settled' : x.slot = reqs[i].slot /\ x.outcome # "PASS")
                    => /\ \E e \in thrown' : e.op = "SUB"
                       /\ subscriptions' = subscriptions
                       /\ handles' = handles]_vars

\* C31: when the key of the subscription and the default key of the client are both
\* configured and exactly one of them can decrypt the unaltered payload of a frame,
\* the dispatcher decrypts the payload and has the message to deliver
C31_AnyConfiguredKeyDecrypts ==
    (/\ crypto.op \in {"decryptPayload", "processMessage"}
     /\ crypto.altered = "none" /\ crypto.message # ""
     /\ crypto.keys[1] # 0 /\ crypto.keys[2] # 0
     /\ (crypto.keys[1] \in crypto.recipients) # (crypto.keys[2] \in crypto.recipients))
    => (crypto.out.success /\ crypto.out.payload = [json |-> crypto.message])

\* C32: gRPC client: a handler is invoked with the frames of a topic in the order
\* the frames arrived: it is never invoked with a frame while a frame of the topic
\* that arrived earlier still waits to be given to it
C32_FramesInOrderPerHandler ==
    [][\A x \in grpc'.invoked : \A j \in DOMAIN grpc.loops :
          (/\ j < (IF grpc'.resumed = 0 THEN Len(grpc.loops) + 1 ELSE grpc'.resumed)
           /\ grpc.loops[j].topic = x.topic)
          => x.handler \notin Range(grpc.loops[j].rest)]_vars

\* C33: HTTP/2 client: when the body of the response to a request starts with -FAIL:
\* the promise returned for the request is rejected: the caller gets an error of the
\* request (or, for the unawaited RENEW, an unhandled rejection), never nothing
C33_FailRejectsRequest ==
    [][(http.engine = "http2" /\ http.request # "none" /\ HttpResponse("FAIL"))
          => http'.raised \cap {"EnSyncConnectionError", "EnSyncGenericError",
                                "unhandledRejection"} # {}]_vars

\* C34: for every flat block of key=value items, brace-wrapped or not, the parser
\* returns the map that holds for each key its complete trimmed value, also when
\* the value contains '='
C34_ParserKeepsWholeValue ==
    converted.op = "done"
        => (converted.error = "none" /\ converted.out = Expected(converted.items, {}))

\* C35: with an engine that answers every command exactly once and in order, a
\* response settles only the request it answers: the oldest command the engine
\* has not answered, and nothing if that request was settled before (it timed out)
C35_ResponseSettlesItsRequest ==
    [][("message" \in emitted' /\ owed.q # <<>>)
          => \A x \in settled' : x.outcome \in Responses
                => (Head(owed.q).live /\ x.slot = Head(owed.q).slot)]_vars

\* C36: a topic that was unsubscribed is not subscribed again by the client on
\* its own: until the application calls subscribe() for it again, no turn writes a
\* SUB for the topic (also when on() of the old subscription object was called)
C36_UnsubscribedStaysUnsubscribed ==
    [][\A t \in Topics : (t \in unsubscribed /\ t \in unsubscribed')
          => \A k \in DOMAIN wire' : wire'[k] # <<"SUB", t>>]_vars

\* C37: with auto-acknowledge a received frame is acknowledged at most once,
\* however many handlers the topic has: the turn that dispatches the frame writes
\* at most one ACK
C37_OneAckPerFrame ==
    [][(\E k \in DOMAIN invoked' : TRUE) => AckCount(wire') <= 1]_vars

\* C38: while the client is not authenticated no command other than CONN is
\* written to the socket (PONG is the reply to the engine's PING, not a command):
\* publish, subscribe, defer and the auto-acknowledge of a handler that finishes
\* after the connection was lost write nothing
C38_OnlyConnBeforeAuthentication ==
    [][(~state.isAuthenticated /\ ~state'.isAuthenticated)
          => \A k \in DOMAIN wire' : wire'[k][1] \in {"CONN", "PONG"}]_vars

\* a handler finished after the connection was lost, on a socket that is open
\* again and not yet authenticated: its auto-acknowledge failed locally
C38_Witness ==
    /\ ws = "open"
    /\ ~state.isAuthenticated
    /\ NotAuthenticatedError("ACK") \in thrown
    /\ wire = <<>>

\* C39: the HTTP/2 engine has at most one reconnect attempt pending: a failure of
\* the session that raises both 'error' and 'close' schedules a single retry
C39_OneRetryPending ==
    http.retryTimeout <= 1

\* C40: every entry of the pending-request map belongs to a request that is not
\* settled; a request rejected at once because the socket is not open leaves no
\* entry behind
C40_MapHoldsOnlyPending ==
    \A i \in DOMAIN messageCallbacks : IsPending(messageCallbacks[i].req)

====
